---------------------------- MODULE Spec2Model ----------------------------
(***************************************************************************)
(* nfe-drop: the broker client (package queue: publish, PublishJob,        *)
(* ConsumeJobs), the worker (handleJob, processXML) and the persister      *)
(* (SaveNFeWithRelations) as state machines.                               *)
(*                                                                         *)
(* SpecQueue  : one publishing client (the watcher's PublishJob), the      *)
(*              broker, and the worker's ConsumeJobs loop with an          *)
(*              arbitrary handler; publish errors, negative confirmations  *)
(*              and expired deadlines included.                            *)
(* SpecQueueOk: the same with a broker that accepts and confirms every     *)
(*              publication in time.                                       *)
(* SpecWorker : two worker processes handling the files of processing/     *)
(*              (queue mode: handleJob; polling mode: handleProcessingFile)*)
(*              over one PostgreSQL store; failing database calls and      *)
(*              failing renames included.                                  *)
(* SpecWorkerOk: the same with a database and a filesystem that do not     *)
(*              fail.                                                      *)
(***************************************************************************)
EXTENDS Integers, Sequences, FiniteSets, TLC

\* ------------------------------------------------------------------ bounds
\* number of jobs the watcher publishes
MaxJobs == 2
\* number of faults (broker, deadline, database, rename) the environment may inject
MaxFaults == 1
\* number of files in processing/ when the workers start, or dropped into
\* incoming/ while the watcher runs
MaxFiles == 2
\* largest size a file being written reaches
MaxSize == 2
MaxDrops == 1

\* ------------------------------------------------------- program constants
\* NewRabbitMQ: maxRetries := 3
stableAttempts == 5
maxRetries == 3
\* NewRabbitMQ: prefetch := 10
prefetch == 10

Jobs == 1..MaxJobs
Clients == {"watcher", "worker"}

\* a header value as the AMQP table carries it: its Go type and its number
Int32(n) == [t |-> "int32", v |-> n]
NoHeader == [t |-> "missing", v |-> 0]
NoMsg == [body |-> 0, hdr |-> NoHeader]
NoPub == [pc |-> "idle", body |-> 0, hdr |-> NoHeader, tag |-> 0, res |-> "none", got |-> 0]

NoSettle == [body |-> 0, hdr |-> NoHeader, herr |-> FALSE, kind |-> "none", repub |-> NoMsg]

VARIABLES
  mainQ,      \* the main queue: messages ready for delivery, head first
  dlq,        \* the dead-letter queue
  msgs,       \* deliveries pushed to the consumer (unacked), not yet read by the loop
  cur,        \* the delivery the ConsumeJobs loop is handling, or NoMsg
  cpc,        \* where the ConsumeJobs loop is
  ctxDone,    \* the consumer's ctx is cancelled
  pub,        \* per client: the publish call in progress
  sent,       \* per client: publishings on the wire, not yet settled by the broker
  confirmCh,  \* per client: r.confirmCh, confirmations not yet read
  nextTag,    \* per client: delivery tag of the next publishing
  toPublish,  \* jobs the watcher has still to publish
  faults,     \* faults the environment may still inject
  handed,     \* per job: the x-retries values it was handed to the handler with
  results,    \* per job: what the handler returned, in order (runQueueMode: the
              \* deliveries settled so far, with the reason they were dropped)
  settled,    \* the delivery settled last: how, and what was republished for it
  accepted,   \* per client: tags of the publishings the broker enqueued
  mode,       \* Worker.Run: "queue" (w.rmq != nil) or "polling"
  fkind,      \* per file: its extension and bytes (an index into FileKinds)
  fs,         \* the directory entries: [d, n, b, id], one per path d/n
  jobs,       \* queue mode: files whose job is waiting in the main queue
              \* (runQueueMode: the job handed to the handler)
  call,       \* per worker: the handler invocation in progress
  db,         \* the committed rows of the five tables
  tx,         \* per worker: the rows written by its open transaction
  nextId,     \* nfe.id BIGSERIAL: the next value of the sequence
  outcomes,   \* per file: the statuses its processXML calls ended with
  fsize,      \* per file: the size os.Stat reports for it
  events,     \* fsnotify: the basenames with a pending create/write event
  wt,         \* the watcher: the handleIncomingFile call in progress
  published,  \* the PublishJob calls the watcher made: [job, id, ok]
  proc        \* per daemon: where its main is, what New built, its exit code

brokerv == <<mainQ, dlq, msgs>>
consv == <<cur, cpc, ctxDone>>
pubv == <<pub, sent, confirmCh, nextTag>>
histv == <<handed, results, settled, accepted>>

qvars == <<brokerv, consv, pubv, histv, toPublish>>
wvars == <<mode, fkind, fs, jobs, call, db, tx, nextId, outcomes>>

ivars == <<fsize, events, wt, published, proc>>

vars == <<qvars, wvars, ivars, faults>>

\* =========================================================== package queue

\* extractRetries(h): the type switch over the header value
extractRetries(h) ==
  IF h.t = "missing" THEN 0
  ELSE IF h.t \in {"int32", "int64", "float32", "float64"} THEN h.v
  ELSE 0

\* publish: headers["x-retries"] defaults to int32(0)
publishHeaders(h) ==
  IF h.t = "missing" THEN Int32(0) ELSE h

\* a caller enters publish(ctx, body, headers)
publishCall(c, body, h) ==
  pub' = [pub EXCEPT ![c] = [pc |-> "send", body |-> body, hdr |-> publishHeaders(h),
                             tag |-> 0, res |-> "none", got |-> 0]]

\* ch.PublishWithContext succeeds: the publishing is on the wire
PublishSend(c) ==
  /\ pub[c].pc = "send"
  /\ sent' = [sent EXCEPT ![c] = Append(@, [tag |-> nextTag[c], body |-> pub[c].body,
                                            hdr |-> pub[c].hdr])]
  /\ nextTag' = [nextTag EXCEPT ![c] = @ + 1]
  /\ pub' = [pub EXCEPT ![c].pc = "wait", ![c].tag = nextTag[c]]
  /\ UNCHANGED <<wvars, ivars, brokerv, consv, confirmCh, histv, toPublish, faults>>

\* ch.PublishWithContext returns an error: nothing is sent
PublishSendErr(c) ==
  /\ pub[c].pc = "send"
  /\ faults > 0
  /\ faults' = faults - 1
  /\ pub' = [pub EXCEPT ![c].pc = "ret", ![c].res = "err_publish"]
  /\ UNCHANGED <<wvars, ivars, brokerv, consv, sent, confirmCh, nextTag, toPublish,
                 handed, results, settled, accepted>>

\* what publish returns for the confirmation it read
confirmResult(conf) ==
  IF conf.ack THEN "nil" ELSE "err_nack"

\* select: case conf := <-r.confirmCh  (the head of the channel, whatever its tag)
PublishConfirm(c) ==
  /\ pub[c].pc = "wait"
  /\ confirmCh[c] # <<>>
  /\ LET conf == Head(confirmCh[c])
     IN pub' = [pub EXCEPT ![c].pc = "ret", ![c].res = confirmResult(conf),
                           ![c].got = conf.tag]
  /\ confirmCh' = [confirmCh EXCEPT ![c] = Tail(@)]
  /\ UNCHANGED <<wvars, ivars, brokerv, consv, sent, nextTag, toPublish, faults,
                 handed, results, settled, accepted>>

\* select: case <-ctx.Done()  (the 5-second deadline expires)
PublishDeadline(c) ==
  /\ pub[c].pc = "wait"
  /\ faults > 0
  /\ faults' = faults - 1
  /\ pub' = [pub EXCEPT ![c].pc = "ret", ![c].res = "err_ctx"]
  /\ UNCHANGED <<wvars, ivars, brokerv, consv, sent, confirmCh, nextTag, toPublish,
                 handed, results, settled, accepted>>

\* select: case <-ctx.Done()  (pubCtx derives from the consumer's ctx, now cancelled)
PublishCancelled ==
  /\ pub["worker"].pc = "wait"
  /\ ctxDone
  /\ pub' = [pub EXCEPT !["worker"].pc = "ret", !["worker"].res = "err_ctx"]
  /\ UNCHANGED <<wvars, ivars, brokerv, consv, sent, confirmCh, nextTag, toPublish, faults,
                 handed, results, settled, accepted>>

\* PublishJob(ctx, job): publish(ctx, body, {"x-retries": int32(0)})
PublishJob(j) ==
  /\ pub["watcher"].pc = "idle"
  /\ j \in toPublish
  /\ \A k \in toPublish : j <= k
  /\ toPublish' = toPublish \ {j}
  /\ publishCall("watcher", j, Int32(0))
  /\ UNCHANGED <<wvars, ivars, brokerv, consv, sent, confirmCh, nextTag, histv, faults>>

\* PublishJob returns to moveToProcessing, which only logs the result
PublishJobReturn ==
  /\ pub["watcher"].pc = "ret"
  /\ pub' = [pub EXCEPT !["watcher"] = NoPub]
  /\ UNCHANGED <<wvars, ivars, brokerv, consv, sent, confirmCh, nextTag, histv, toPublish, faults>>

\* ------------------------------------------------------------------ broker
\* the broker routes the oldest publishing on the wire to the main queue and
\* confirms it (publisher confirms, ch.Confirm)
BrokerAccept(c) ==
  /\ sent[c] # <<>>
  /\ LET p == Head(sent[c])
     IN /\ mainQ' = Append(mainQ, [body |-> p.body, hdr |-> p.hdr])
        /\ confirmCh' = [confirmCh EXCEPT ![c] = Append(@, [tag |-> p.tag, ack |-> TRUE])]
        /\ accepted' = [accepted EXCEPT ![c] = @ \cup {p.tag}]
  /\ sent' = [sent EXCEPT ![c] = Tail(@)]
  /\ UNCHANGED <<wvars, ivars, dlq, msgs, consv, pub, nextTag, toPublish, faults,
                 handed, results, settled>>

\* the broker refuses the oldest publishing on the wire: negative confirmation
BrokerNack(c) ==
  /\ sent[c] # <<>>
  /\ faults > 0
  /\ faults' = faults - 1
  /\ confirmCh' = [confirmCh EXCEPT ![c] = Append(@, [tag |-> Head(sent[c]).tag, ack |-> FALSE])]
  /\ sent' = [sent EXCEPT ![c] = Tail(@)]
  /\ UNCHANGED <<wvars, ivars, brokerv, consv, pub, nextTag, toPublish, histv>>

\* deliveries the consumer holds unacknowledged
unacked ==
  Len(msgs) + (IF cur = NoMsg THEN 0 ELSE 1)

\* ch.Qos(prefetch) + ch.Consume: the broker pushes the head of the main queue
Deliver ==
  /\ cpc # "returned"
  /\ mainQ # <<>>
  /\ unacked < prefetch
  /\ msgs' = Append(msgs, Head(mainQ))
  /\ mainQ' = Tail(mainQ)
  /\ UNCHANGED <<wvars, ivars, dlq, consv, pubv, histv, toPublish, faults>>

\* ------------------------------------------------------------- ConsumeJobs
\* mutant: the retry budget compared with <= instead of <
shouldRetryInclusive(retries) ==
  retries <= maxRetries

\* if retries < r.maxRetries
shouldRetry(retries) ==
  retries < maxRetries

\* mutant: the republished header keeps the old counter
retryHeaderSame(retries) ==
  Int32(retries)

\* headers["x-retries"] = int32(retries + 1)
retryHeader(retries) ==
  Int32(retries + 1)

\* the entry a settled delivery leaves in the log
settle(kind, herr, repub) ==
  [body |-> cur.body, hdr |-> cur.hdr, herr |-> herr, kind |-> kind, repub |-> repub]

\* case msg := <-msgs: unmarshal, then handler(job) is called
ConsumeReceive ==
  /\ cpc = "select"
  /\ msgs # <<>>
  /\ cur' = Head(msgs)
  /\ msgs' = Tail(msgs)
  /\ cpc' = "handler"
  /\ handed' = [handed EXCEPT ![Head(msgs).body] = Append(@, Head(msgs).hdr.v)]
  /\ UNCHANGED <<wvars, ivars, mainQ, dlq, ctxDone, pubv, results, settled, accepted,
                 toPublish, faults>>

\* handler(job) returned nil: msg.Ack(false)
HandlerNil ==
  /\ cpc = "handler"
  /\ results' = [results EXCEPT ![cur.body] = Append(@, "nil")]
  /\ settled' = settle("ack", FALSE, NoMsg)
  /\ cur' = NoMsg
  /\ cpc' = "select"
  /\ UNCHANGED <<wvars, ivars, brokerv, ctxDone, pubv, handed, accepted, toPublish, faults>>

\* handler(job) returned an error and retries < maxRetries: republish
HandlerErrRetry ==
  /\ cpc = "handler"
  /\ shouldRetry(extractRetries(cur.hdr))
  /\ results' = [results EXCEPT ![cur.body] = Append(@, "err")]
  /\ publishCall("worker", cur.body, retryHeader(extractRetries(cur.hdr)))
  /\ cpc' = "republish"
  /\ UNCHANGED <<wvars, ivars, brokerv, cur, ctxDone, sent, confirmCh, nextTag, handed, settled,
                 accepted, toPublish, faults>>

\* mutant: msg.Nack(false, true), the broker requeues the delivery
HandlerErrNackRequeue ==
  /\ cpc = "handler"
  /\ ~shouldRetry(extractRetries(cur.hdr))
  /\ results' = [results EXCEPT ![cur.body] = Append(@, "err")]
  /\ settled' = settle("nack", TRUE, NoMsg)
  /\ mainQ' = <<cur>> \o mainQ
  /\ cur' = NoMsg
  /\ cpc' = "select"
  /\ UNCHANGED <<wvars, ivars, dlq, msgs, ctxDone, pubv, handed, accepted, toPublish, faults>>

\* handler(job) returned an error and retries >= maxRetries: msg.Nack(false, false),
\* which the main queue's x-dead-letter-exchange routes to the DLQ
HandlerErrNack ==
  /\ cpc = "handler"
  /\ ~shouldRetry(extractRetries(cur.hdr))
  /\ results' = [results EXCEPT ![cur.body] = Append(@, "err")]
  /\ settled' = settle("nack", TRUE, NoMsg)
  /\ dlq' = Append(dlq, cur)
  /\ cur' = NoMsg
  /\ cpc' = "select"
  /\ UNCHANGED <<wvars, ivars, mainQ, msgs, ctxDone, pubv, handed, accepted, toPublish, faults>>

\* mutant: a failed republish rejects the delivery back to the main queue
RepublishAckUnlessFailed ==
  /\ cpc = "republish"
  /\ pub["worker"].pc = "ret"
  /\ settled' = settle(IF pub["worker"].res = "nil" THEN "ack" ELSE "nack", TRUE,
                       [body |-> pub["worker"].body, hdr |-> pub["worker"].hdr])
  /\ mainQ' = IF pub["worker"].res = "nil" THEN mainQ ELSE <<cur>> \o mainQ
  /\ pub' = [pub EXCEPT !["worker"] = NoPub]
  /\ cur' = NoMsg
  /\ cpc' = "select"
  /\ UNCHANGED <<wvars, ivars, dlq, msgs, ctxDone, sent, confirmCh, nextTag, handed,
                 results, accepted, toPublish, faults>>

\* r.publish returned (its error is only logged): cancel(); msg.Ack(false)
RepublishAck ==
  /\ cpc = "republish"
  /\ pub["worker"].pc = "ret"
  /\ settled' = settle("ack", TRUE, [body |-> pub["worker"].body,
                                        hdr |-> pub["worker"].hdr])
  /\ pub' = [pub EXCEPT !["worker"] = NoPub]
  /\ cur' = NoMsg
  /\ cpc' = "select"
  /\ UNCHANGED <<wvars, ivars, brokerv, ctxDone, sent, confirmCh, nextTag, handed, results,
                 accepted, toPublish, faults>>

\* case <-ctx.Done(): return ctx.Err(); Worker.Run's deferred rmq.Close() closes the
\* channel and the broker requeues what was unacknowledged
ConsumeCancel ==
  /\ cpc = "select"
  /\ ctxDone
  /\ cpc' = "returned"
  /\ mainQ' = msgs \o mainQ
  /\ msgs' = <<>>
  /\ UNCHANGED <<wvars, ivars, dlq, cur, ctxDone, pubv, histv, toPublish, faults>>

\* SIGINT/SIGTERM: signal.NotifyContext cancels the worker's ctx
Cancel ==
  /\ ~ctxDone
  /\ cpc # "returned"
  /\ ctxDone' = TRUE
  /\ UNCHANGED <<wvars, ivars, brokerv, cur, cpc, pubv, histv, toPublish, faults>>

\* ========================================================== package worker
\* Two worker processes (cmd/nfe-drop-worker) share processing/ and the
\* database.  Inside one process the handler runs to completion before the
\* next job or file is taken; a file is in the hands of one handler at a time.

Workers == {"w1", "w2"}
Files == 1..MaxFiles
Tables == {"nfe", "nfe_xml", "nfe_item", "nfe_duplicatas", "nfe_pagamentos"}

\* what a file of processing/ may be: its extension and its bytes
\*   "a1"    an NF-e with access key "A"
\*   "a2"    the same NF-e (access key "A") serialised to other bytes
\*   "junk"  bytes that are neither nfeProc nor NFe
\*   "noemi" an NF-e with access key "B" whose dhEmi and dEmi are empty
\*   "rep"   an NF-e with access key "C" with two det elements of one nItem
\*   "repdup" an NF-e with access key "D" with two dup elements of one nDup
\*   "zipA"  an archive with the entries i1.xml ("a1"), notes.txt, i2.XML ("junk")
\*   "zipBad"   bytes that zip.OpenReader refuses
\*   "zipEmpty" an archive without entries
FileKinds ==
  << [ext |-> ".xml", bytes |-> "a1"],
     [ext |-> ".xml", bytes |-> "a2"],
     [ext |-> ".xml", bytes |-> "junk"],
     [ext |-> ".xml", bytes |-> "noemi"],
     [ext |-> ".xml", bytes |-> "rep"],
     [ext |-> ".txt", bytes |-> "junk"],
     [ext |-> ".zip", bytes |-> "zipA"],
     [ext |-> ".ZIP", bytes |-> "zipBad"],
     [ext |-> ".zip", bytes |-> "zipEmpty"],
     [ext |-> ".xml", bytes |-> "repdup"] >>

ext(f) == FileKinds[fkind[f]].ext
bytes(f) == FileKinds[fkind[f]].bytes

\* strings.ToLower on the extensions and job kinds that occur
ToLower(s) ==
  CASE s = ".XML" -> ".xml"
    [] s = ".ZIP" -> ".zip"
    [] s = "XML" -> "xml"
    [] s = "ZIP" -> "zip"
    [] OTHER -> s

\* strings.TrimPrefix(ext, "."): the job kind of an extension
TrimDot(e) ==
  CASE e = ".xml" -> "xml"
    [] e = ".zip" -> "zip"
    [] e = ".txt" -> "txt"
    [] OTHER -> e

\* ------------------------------------------------------------ filesystem
\* A path is a directory and a basename; a basename is a stem and an
\* extension.  An entry of fs says which bytes are at a path and which file
\* instance they belong to: <<f, 0>> is the dropped file f, <<f, i>> the
\* i-th entry extracted from the archive f.
Dirs == {"incoming", "processing", "processed", "failed", "ignored", "tmp"}
Stems == <<"f1", "f2", "f3", "f4", "f5">>
NoName == [stem |-> "", ext |-> ""]
fileName(f) == [stem |-> Stems[f], ext |-> ext(f)]

\* the entry at path d/n, if any
at(d, n) == {e \in fs : e.d = d /\ e.n = n}

\* the move of the mutant: copy to the destination, the source stays
osRenameCopy(sd, n, dd) ==
  IF at(sd, n) = {} THEN fs
  ELSE (fs \ at(dd, n)) \cup {[e EXCEPT !.d = dd] : e \in at(sd, n)}

\* os.Rename(sd/n, dd/n): fails when the source is missing; replaces the
\* destination when it exists
osRename(sd, n, dd) ==
  IF at(sd, n) = {} THEN fs
  ELSE (fs \ (at(sd, n) \cup at(dd, n)))
         \cup {[e EXCEPT !.d = dd] : e \in at(sd, n)}

\* os.Remove(d/n)
osRemove(d, n) == fs \ at(d, n)

\* processZIP: workDir = TmpDir/baseName, one directory per archive stem
WorkDirs == <<"tmp/f1", "tmp/f2", "tmp/f3", "tmp/f4", "tmp/f5">>
workDir(n) == WorkDirs[CHOOSE i \in DOMAIN Stems : Stems[i] = n.stem]

\* zip.OpenReader succeeds on these bytes
zipReadable(b) == b \in {"zipA", "zipB", "zipEmpty"}

\* zr.File: the entries of an archive, in order
zipEntries(b) ==
  IF b = "zipA"
  THEN << [n |-> [stem |-> "i1", ext |-> ".xml"], b |-> "a1"],
          [n |-> [stem |-> "notes", ext |-> ".txt"], b |-> "junk"],
          [n |-> [stem |-> "i2", ext |-> ".XML"], b |-> "junk"] >>
  ELSE IF b = "zipB"
  THEN << [n |-> [stem |-> "i3", ext |-> ".xml"], b |-> "a2"] >>
  ELSE <<>>

\* ParseFile: sha256.Sum256(data), hex encoded
sha256(b) == <<"sha256", b>>

NoParsed == [ok |-> FALSE, chave |-> "", hash |-> <<>>, emissao |-> "",
             itens |-> <<>>, dups |-> <<>>, pags |-> <<>>]

\* ParseFile / buildParsedFrom: the fields the storage layer uses
ParseFile(b) ==
  CASE b = "a1" -> [ok |-> TRUE, chave |-> "A", hash |-> sha256(b),
                    emissao |-> "2024-01-01", itens |-> <<1>>,
                    dups |-> <<"001">>, pags |-> <<"01">>]
    [] b = "a2" -> [ok |-> TRUE, chave |-> "A", hash |-> sha256(b),
                    emissao |-> "2024-01-01", itens |-> <<1>>,
                    dups |-> <<"001">>, pags |-> <<"01">>]
    [] b = "noemi" -> [ok |-> TRUE, chave |-> "B", hash |-> sha256(b),
                    emissao |-> "", itens |-> <<1>>,
                    dups |-> <<>>, pags |-> <<>>]
    [] b = "rep" -> [ok |-> TRUE, chave |-> "C", hash |-> sha256(b),
                    emissao |-> "2024-01-01", itens |-> <<1, 1>>,
                    dups |-> <<>>, pags |-> <<"01", "01">>]
    [] b = "repdup" -> [ok |-> TRUE, chave |-> "D", hash |-> sha256(b),
                    emissao |-> "2024-01-01", itens |-> <<1>>,
                    dups |-> <<"001", "001">>, pags |-> <<>>]
    [] OTHER -> NoParsed

NoRows == [t \in Tables |-> {}]
NoTx == [active |-> FALSE, rows |-> NoRows]
NoCall == [pc |-> "idle", f |-> 0, n |-> NoName, src |-> "", id |-> <<>>,
           b |-> "", xml |-> FALSE, zn |-> NoName, zb |-> "", zi |-> 0,
           log |-> <<>>, parsed |-> NoParsed,
           saveRes |-> "none", seqId |-> 0, nfeID |-> 0, status |-> "none",
           moveTo |-> "none", renamed |-> FALSE, obs |-> <<>>, ret |-> "none",
           xmlCount |-> 0, successCount |-> 0, dupCount |-> 0, failCount |-> 0,
           xerr |-> {}]

\* the calls of SaveNFeWithRelations that talk to the database, in order
DbSteps == <<"begin", "insertNFe", "insertNFeXML", "insertItens",
             "insertDuplicatas", "insertPagamentos", "commit">>

\* ------------------------------------------------------------- the store
\* the unique check of the mutant: hash_integridade alone
isUniqueViolationHashOnly(rows, p) ==
  \E r \in rows : r.hash_integridade = p.hash

\* migrations: nfe has UNIQUE (chave_acesso) and UNIQUE (hash_integridade);
\* isUniqueViolation: SQLSTATE 23505
isUniqueViolation(rows, p) ==
  \E r \in rows : r.chave_acesso = p.chave \/ r.hash_integridade = p.hash

\* the INSERT of the mutant: it never waits for another transaction
insertNeverBlocked(w, p) == FALSE

\* an INSERT into nfe waits while another open transaction holds an
\* uncommitted row with the same unique key
insertBlocked(w, p) ==
  \E v \in Workers \ {w} : isUniqueViolation(tx[v].rows["nfe"], p)

\* UNIQUE (nfe_id, n_item), UNIQUE (nfe_id, numero_duplicata)
hasRepeat(s) == \E i, k \in DOMAIN s : i # k /\ s[i] = s[k]

\* tx.Commit: the rows of the transaction become visible
commitRows(w) == [t \in Tables |-> db[t] \cup tx[w].rows[t]]

\* the rollback of the mutant: the rows written so far stay
rollbackKeepsRows(w) == [t \in Tables |-> db[t] \cup tx[w].rows[t]]

\* tx.Rollback: the rows of the transaction are discarded
rollbackRows(w) == db

txWrite(w, t, rows) == [tx EXCEPT ![w].rows[t] = @ \cup rows]

\* ------------------------------------------------------------ processXML
\* the status switch of processXML on the result of SaveNFeWithRelations
statusOf(res) ==
  CASE res = "ok" -> "success"
    [] res = "duplicate" -> "duplicate"
    [] OTHER -> "db_error"

\* the move of the mutant: duplicates go to failed/
moveTargetDupFailed(status) ==
  CASE status = "success" -> "processed"
    [] OTHER -> "failed"

\* moveToProcessed / moveToFailed / moveToIgnored as processXML calls them
moveTarget(status) ==
  CASE status = "success" -> "processed"
    [] status = "duplicate" -> "ignored"
    [] OTHER -> "failed"

\* SaveNFeWithRelations returns res; processXML sets status and calls the move
saveReturn(w, res) ==
  [call EXCEPT ![w].saveRes = res,
            ![w].status = statusOf(res),
            ![w].moveTo = moveTarget(statusOf(res)),
            ![w].pc = "move"]

\* queue.Job: the path (processing/n) and the kind; the jobs the watcher can
\* publish for the files
jobOf(n) == [n |-> n, kind |-> TrimDot(ToLower(n.ext))]
AllJobs ==
  {jobOf([stem |-> Stems[f], ext |-> FileKinds[k].ext]) :
     f \in Files, k \in DOMAIN FileKinds}

\* the call record when processXML starts on the file at processing/n
startXML(n) ==
  LET e == CHOOSE e \in at("processing", n) : TRUE IN
    [NoCall EXCEPT !.pc = "parse", !.f = e.id[1], !.n = n,
                   !.src = "processing", !.xml = TRUE]

\* the call record when processZIP starts on the archive at processing/n
startZIP(n) ==
  LET e == CHOOSE e \in at("processing", n) : TRUE IN
    [NoCall EXCEPT !.pc = "zipOpen", !.f = e.id[1], !.zn = n]

\* handleJob: os.Stat(job.Path), then the switch on job.Kind
handleJob(w, j) ==
  /\ mode = "queue"
  /\ call[w].pc = "idle"
  /\ j \in jobs
  /\ jobs' = jobs \ {j}
  /\ call' = [call EXCEPT ![w] =
       IF at("processing", j.n) # {} /\ ToLower(j.kind) = "xml"
       THEN startXML(j.n)
       ELSE IF at("processing", j.n) # {} /\ ToLower(j.kind) = "zip"
       THEN startZIP(j.n)
       ELSE [NoCall EXCEPT !.pc = "done", !.n = j.n, !.ret = "nil"]]
  /\ UNCHANGED <<qvars, ivars, mode, fkind, fs, db, tx, nextId, outcomes, faults>>

\* processProcessingFolder / handleProcessingFile: the switch on the extension
handleProcessingFile(w, n) ==
  /\ mode = "polling"
  /\ call[w].pc = "idle"
  /\ at("processing", n) # {}
  /\ \A v \in Workers : call[v].n # n /\ call[v].zn # n
  /\ call' = [call EXCEPT ![w] =
       IF ToLower(n.ext) = ".xml"
       THEN startXML(n)
       ELSE IF ToLower(n.ext) = ".zip"
       THEN startZIP(n)
       ELSE [NoCall EXCEPT !.pc = "move", !.n = n, !.src = "processing",
                           !.moveTo = "processed"]]
  /\ UNCHANGED <<qvars, ivars, mode, fkind, fs, jobs, db, tx, nextId, outcomes, faults>>

\* processXML: nfe.ParseFile reads the bytes at the path (a missing file is
\* a read error) and parses them
processXMLParse(w) ==
  /\ call[w].pc = "parse"
  /\ LET es == at(call[w].src, call[w].n)
         e == CHOOSE e \in es : TRUE
         p == IF es = {} THEN NoParsed ELSE ParseFile(e.b)
     IN call' = [call EXCEPT ![w] =
          IF p.ok
          THEN [@ EXCEPT !.parsed = p, !.id = e.id, !.b = e.b, !.pc = "begin"]
          ELSE [@ EXCEPT !.id = IF es = {} THEN <<>> ELSE e.id,
                         !.b = IF es = {} THEN "" ELSE e.b,
                         !.status = "parse_error", !.moveTo = "failed",
                         !.pc = "move"]]
  /\ UNCHANGED <<qvars, ivars, mode, fkind, fs, jobs, db, tx, nextId, outcomes, faults>>

\* SaveNFeWithRelations: db.Begin
SaveBegin(w) ==
  /\ call[w].pc = "begin"
  /\ tx' = [tx EXCEPT ![w] = [active |-> TRUE, rows |-> NoRows]]
  /\ call' = [call EXCEPT ![w].pc = "insertNFe"]
  /\ UNCHANGED <<qvars, ivars, mode, fkind, fs, jobs, db, nextId, outcomes, faults>>

\* insertNFe: the empty issue date is refused before the INSERT; the INSERT
\* draws nextval of the id sequence, then either hits a unique index
\* (ErrNFeAlreadyExists) or adds the header row; the deferred Rollback runs
\* when an error is returned
insertNFe(w) ==
  /\ call[w].pc = "insertNFe"
  /\ LET p == call[w].parsed IN
       IF p.emissao = ""
       THEN /\ call' = saveReturn(w, "error")
            /\ db' = rollbackRows(w)
            /\ tx' = [tx EXCEPT ![w] = NoTx]
            /\ UNCHANGED nextId
       ELSE /\ ~ insertBlocked(w, p)
            /\ nextId' = nextId + 1
            /\ IF isUniqueViolation(db["nfe"], p)
               THEN /\ call' = [saveReturn(w, "duplicate") EXCEPT ![w].seqId = nextId]
                    /\ db' = rollbackRows(w)
                    /\ tx' = [tx EXCEPT ![w] = NoTx]
               ELSE /\ call' = [call EXCEPT ![w].seqId = nextId, ![w].nfeID = nextId,
                                      ![w].pc = "insertNFeXML"]
                    /\ tx' = txWrite(w, "nfe",
                               {[id |-> nextId, chave_acesso |-> p.chave,
                                 hash_integridade |-> p.hash]})
                    /\ UNCHANGED db
  /\ UNCHANGED <<qvars, ivars, mode, fkind, fs, jobs, outcomes, faults>>

\* insertNFeXML: one row keyed by nfe_id
insertNFeXML(w) ==
  /\ call[w].pc = "insertNFeXML"
  /\ tx' = txWrite(w, "nfe_xml",
             {[nfe_id |-> call[w].nfeID, xml |-> call[w].b]})
  /\ call' = [call EXCEPT ![w].pc = "insertItens"]
  /\ UNCHANGED <<qvars, ivars, mode, fkind, fs, jobs, db, nextId, outcomes, faults>>

\* mutant: the unique violation of a child row is taken for a duplicate
insertItensAsDuplicate(w) ==
  /\ call[w].pc = "insertItens"
  /\ LET s == call[w].parsed.itens IN
       IF hasRepeat(s)
       THEN /\ call' = saveReturn(w, "duplicate")
            /\ db' = rollbackRows(w)
            /\ tx' = [tx EXCEPT ![w] = NoTx]
       ELSE /\ call' = [call EXCEPT ![w].pc = "insertDuplicatas"]
            /\ tx' = txWrite(w, "nfe_item",
                       {[nfe_id |-> call[w].nfeID, n_item |-> s[i]] : i \in DOMAIN s})
            /\ UNCHANGED db
  /\ UNCHANGED <<qvars, ivars, mode, fkind, fs, jobs, nextId, outcomes, faults>>

\* insertItens: one row per item; a repeated n_item violates the unique index
insertItens(w) ==
  /\ call[w].pc = "insertItens"
  /\ LET s == call[w].parsed.itens IN
       IF hasRepeat(s)
       THEN /\ call' = saveReturn(w, "error")
            /\ db' = rollbackRows(w)
            /\ tx' = [tx EXCEPT ![w] = NoTx]
       ELSE /\ call' = [call EXCEPT ![w].pc = "insertDuplicatas"]
            /\ tx' = txWrite(w, "nfe_item",
                       {[nfe_id |-> call[w].nfeID, n_item |-> s[i]] : i \in DOMAIN s})
            /\ UNCHANGED db
  /\ UNCHANGED <<qvars, ivars, mode, fkind, fs, jobs, nextId, outcomes, faults>>

\* insertDuplicatas: one row per receivable
insertDuplicatas(w) ==
  /\ call[w].pc = "insertDuplicatas"
  /\ LET s == call[w].parsed.dups IN
       IF hasRepeat(s)
       THEN /\ call' = saveReturn(w, "error")
            /\ db' = rollbackRows(w)
            /\ tx' = [tx EXCEPT ![w] = NoTx]
       ELSE /\ call' = [call EXCEPT ![w].pc = "insertPagamentos"]
            /\ tx' = txWrite(w, "nfe_duplicatas",
                       {[nfe_id |-> call[w].nfeID, numero_duplicata |-> s[i]] :
                          i \in DOMAIN s})
            /\ UNCHANGED db
  /\ UNCHANGED <<qvars, ivars, mode, fkind, fs, jobs, nextId, outcomes, faults>>

\* insertPagamentos: one row per payment (no unique index besides the id)
insertPagamentos(w) ==
  /\ call[w].pc = "insertPagamentos"
  /\ LET s == call[w].parsed.pags IN
       tx' = txWrite(w, "nfe_pagamentos",
               {[nfe_id |-> call[w].nfeID, k |-> i, forma |-> s[i]] : i \in DOMAIN s})
  /\ call' = [call EXCEPT ![w].pc = "commit"]
  /\ UNCHANGED <<qvars, ivars, mode, fkind, fs, jobs, db, nextId, outcomes, faults>>

\* tx.Commit succeeds
SaveCommit(w) ==
  /\ call[w].pc = "commit"
  /\ db' = commitRows(w)
  /\ tx' = [tx EXCEPT ![w] = NoTx]
  /\ call' = saveReturn(w, "ok")
  /\ UNCHANGED <<qvars, ivars, mode, fkind, fs, jobs, nextId, outcomes, faults>>

\* db.Begin, an INSERT or tx.Commit fails for a reason of the database
\* (connection lost, timeout): the error is returned and the deferred
\* Rollback discards what the transaction wrote
SaveFault(w) ==
  /\ \E i \in DOMAIN DbSteps : call[w].pc = DbSteps[i]
  /\ faults > 0
  /\ faults' = faults - 1
  /\ db' = rollbackRows(w)
  /\ tx' = [tx EXCEPT ![w] = NoTx]
  /\ call' = saveReturn(w, "error")
  /\ UNCHANGED <<qvars, ivars, mode, fkind, fs, jobs, nextId, outcomes>>

\* the return of processXML (or of the default branch of
\* handleProcessingFile) after the move: the deferred metrics.ObserveNFe
\* runs, handleJob returns nil
callReturn(w, ok) ==
  LET c == call[w]
      inZip == c.zi > 0
  IN [call EXCEPT
        ![w].successCount = IF inZip /\ c.status = "success" THEN @ + 1 ELSE @,
        ![w].dupCount = IF inZip /\ c.status = "duplicate" THEN @ + 1 ELSE @,
        ![w].failCount = IF inZip /\ c.status \in {"parse_error", "db_error"}
                         THEN @ + 1 ELSE @,
        ![w].renamed = ok,
        ![w].obs = IF c.xml \/ inZip
                   THEN Append(@, [status |-> c.status,
                                   source |-> IF inZip THEN "zip" ELSE "xml"])
                   ELSE @,
        ![w].log = IF inZip
                   THEN Append(@, [n |-> c.n, id |-> c.id, status |-> c.status,
                                   to |-> c.moveTo, renamed |-> ok])
                   ELSE @,
        ![w].zi = IF inZip THEN c.zi + 1 ELSE c.zi,
        ![w].ret = IF inZip THEN "none" ELSE "nil",
        ![w].pc = IF inZip THEN "zipEntry" ELSE "done"]

\* moveToProcessed / moveToFailed / moveToIgnored: os.Rename; its error
\* (here: the source is missing) is only logged
moveFile(w) ==
  /\ call[w].pc = "move"
  /\ fs' = osRename(call[w].src, call[w].n, call[w].moveTo)
  /\ call' = callReturn(w, at(call[w].src, call[w].n) # {})
  /\ UNCHANGED <<qvars, ivars, mode, fkind, jobs, db, tx, nextId, outcomes, faults>>

\* mutant: the failed rename loses the source file
moveFileErrLosesFile(w) ==
  /\ call[w].pc = "move"
  /\ faults > 0
  /\ faults' = faults - 1
  /\ fs' = osRemove(call[w].src, call[w].n)
  /\ call' = callReturn(w, FALSE)
  /\ UNCHANGED <<qvars, ivars, mode, fkind, jobs, db, tx, nextId, outcomes>>

\* os.Rename fails: the error is logged, the file stays in processing/
moveFileErr(w) ==
  /\ call[w].pc = "move"
  /\ faults > 0
  /\ faults' = faults - 1
  /\ call' = callReturn(w, FALSE)
  /\ UNCHANGED <<qvars, ivars, mode, fkind, fs, jobs, db, tx, nextId, outcomes>>

\* ------------------------------------------------------------ processZIP
\* the archive of the mutant: moved to processed/ instead of removed
zipDisposeMoves(w) == osRename("processing", call[w].zn, "processed")

\* os.Remove(srcPath): the archive is removed
zipDispose(w) == osRemove("processing", call[w].zn)

\* the deferred cleanup of the mutant: workDir is left as it is
RemoveAllNothing(files, wd) == files

\* defer os.RemoveAll(workDir)
RemoveAll(files, wd) == {e \in files : e.d # wd}

\* the test of the mutant: the name is compared as it is
isXmlEntryExact(n) == n.ext = ".xml"

\* strings.HasSuffix(strings.ToLower(name), ".xml")
isXmlEntry(n) == ToLower(n.ext) = ".xml"

\* the empty archive of the mutant goes to failed/
emptyZipDisposeFailed(zn) == osRename("processing", zn, "failed")

\* len(zr.File) == 0: _ = os.Remove(srcPath)
emptyZipDispose(zn) == osRemove("processing", zn)

\* os.MkdirAll(workDir) fails: the archive is removed and processZIP returns
\* (nothing is deferred yet)
processZIPMkdirErr(w) ==
  /\ call[w].pc = "zipOpen"
  /\ faults > 0
  /\ faults' = faults - 1
  /\ fs' = osRemove("processing", call[w].zn)
  /\ call' = [call EXCEPT ![w].ret = "nil", ![w].pc = "done"]
  /\ UNCHANGED <<qvars, ivars, mode, fkind, jobs, db, tx, nextId, outcomes>>

\* processZIP up to the loop: zip.OpenReader fails or the archive has no
\* entry: the archive is removed and processZIP returns
processZIPOpen(w) ==
  /\ call[w].pc = "zipOpen"
  /\ LET es == at("processing", call[w].zn)
         e == CHOOSE e \in es : TRUE
     IN IF es # {} /\ zipReadable(e.b) /\ Len(zipEntries(e.b)) > 0
        THEN /\ call' = [call EXCEPT ![w].zb = e.b, ![w].zi = 1,
                                     ![w].pc = "zipEntry"]
             /\ UNCHANGED fs
        ELSE /\ call' = [call EXCEPT ![w].ret = "nil", ![w].pc = "done"]
             /\ fs' = RemoveAll(IF es # {} /\ zipReadable(e.b)
                                THEN emptyZipDispose(call[w].zn)
                                ELSE osRemove("processing", call[w].zn),
                                workDir(call[w].zn))
  /\ UNCHANGED <<qvars, ivars, mode, fkind, jobs, db, tx, nextId, outcomes, faults>>

\* the per-entry fields of the call record, cleared for the next entry
nextEntry(c) ==
  [c EXCEPT !.parsed = NoParsed, !.saveRes = "none", !.seqId = 0, !.nfeID = 0,
            !.status = "none", !.moveTo = "none", !.renamed = FALSE,
            !.id = <<>>, !.b = "", !.n = NoName, !.src = ""]

\* one turn of the loop over zr.File: an entry whose lowercased name does not
\* end in .xml is skipped, an .xml entry is extracted to workDir and parsed;
\* after the last entry the archive is removed, the deferred RemoveAll
\* empties workDir and processZIP returns
processZIPEntry(w) ==
  /\ call[w].pc = "zipEntry"
  /\ LET c == call[w]
         ents == zipEntries(c.zb)
         wd == workDir(c.zn)
     IN IF c.zi > Len(ents)
        THEN /\ fs' = RemoveAll(zipDispose(w), wd)
             /\ call' = [call EXCEPT ![w].ret = "nil", ![w].pc = "done"]
        ELSE IF ~ isXmlEntry(ents[c.zi].n)
        THEN /\ call' = [call EXCEPT ![w].zi = c.zi + 1]
             /\ UNCHANGED fs
        ELSE /\ fs' = (fs \ at(wd, ents[c.zi].n))
                        \cup {[d |-> wd, n |-> ents[c.zi].n,
                                b |-> ents[c.zi].b, id |-> <<c.f, c.zi>>]}
             /\ call' = [call EXCEPT ![w] =
                          [nextEntry(c) EXCEPT !.n = ents[c.zi].n, !.src = wd,
                                               !.xmlCount = @ + 1,
                                               !.pc = "parse"]]
  /\ UNCHANGED <<qvars, ivars, mode, fkind, jobs, db, tx, nextId, outcomes, faults>>

\* xmlCount++, then f.Open or os.Create fails for an .xml entry: failCount++
\* and the loop continues with the next entry
processZIPExtractErr(w) ==
  /\ call[w].pc = "zipEntry"
  /\ call[w].zi <= Len(zipEntries(call[w].zb))
  /\ isXmlEntry(zipEntries(call[w].zb)[call[w].zi].n)
  /\ faults > 0
  /\ faults' = faults - 1
  /\ call' = [call EXCEPT ![w].zi = @ + 1, ![w].xmlCount = @ + 1,
                          ![w].failCount = @ + 1,
                          ![w].xerr = @ \cup {call[w].zi}]
  /\ UNCHANGED <<qvars, ivars, mode, fkind, fs, jobs, db, tx, nextId, outcomes>>

\* xmlCount++, then io.Copy fails for an .xml entry: a partial file is left
\* in workDir, failCount++ and the loop continues with the next entry
processZIPCopyErr(w) ==
  /\ call[w].pc = "zipEntry"
  /\ call[w].zi <= Len(zipEntries(call[w].zb))
  /\ isXmlEntry(zipEntries(call[w].zb)[call[w].zi].n)
  /\ faults > 0
  /\ faults' = faults - 1
  /\ LET c == call[w]
         ent == zipEntries(c.zb)[c.zi]
         wd == workDir(c.zn)
     IN fs' = (fs \ at(wd, ent.n))
                \cup {[d |-> wd, n |-> ent.n, b |-> "junk", id |-> <<c.f, c.zi>>]}
  /\ call' = [call EXCEPT ![w].zi = @ + 1, ![w].xmlCount = @ + 1,
                          ![w].failCount = @ + 1,
                          ![w].xerr = @ \cup {call[w].zi}]
  /\ UNCHANGED <<qvars, ivars, mode, fkind, jobs, db, tx, nextId, outcomes>>

\* the handler has returned: the worker takes the next job or file
handlerReturn(w) ==
  /\ call[w].pc = "done"
  /\ outcomes' = IF call[w].xml /\ call[w].f \in Files
                 THEN [outcomes EXCEPT ![call[w].f] = Append(@, call[w].status)]
                 ELSE outcomes
  /\ call' = [call EXCEPT ![w] = NoCall]
  /\ UNCHANGED <<qvars, ivars, mode, fkind, fs, jobs, db, tx, nextId, faults>>

\* ---------------------------------------------------------- runQueueMode
\* ConsumeJobs with handleJob as its handler: one consumer loop; the job it
\* hands over is the one element of jobs, the worker that runs it is the
\* goroutine of the loop.

\* a body that is no JSON object of a job
Malformed == [json |-> FALSE, job |-> [n |-> NoName, kind |-> ""]]

\* json.Unmarshal(msg.Body, &job)
Unmarshal(body) == [ok |-> body.json, job |-> body.job]

\* why the delivery m cannot be processed, in the order of the code:
\* the envelope, os.Stat(job.Path), the switch on the kind
whyDropped(m) ==
  IF ~ m.body.json THEN "malformed"
  ELSE IF at("processing", m.body.job.n) = {} THEN "missing"
  ELSE IF m.body.job.kind \notin {"xml", "XML", "zip", "ZIP"} THEN "unknown"
  ELSE "ok"

\* the entry of the log of settled deliveries
settledAs(m, why, kind, herr, repub) ==
  [body |-> m.body, hdr |-> m.hdr, why |-> why, kind |-> kind, herr |-> herr,
   repub |-> repub]

\* the mutant answers a malformed envelope with msg.Nack(false, false)
unmarshalErrSettleNack == "nack"

\* ConsumeJobs, json.Unmarshal failed: _ = msg.Ack(false); continue
unmarshalErrSettle == "ack"

\* case msg := <-msgs: json.Unmarshal, then either the acknowledgement of a
\* malformed envelope or the call of handler(job)
ConsumeJobsReceive ==
  /\ cpc = "select"
  /\ msgs # <<>>
  /\ msgs' = Tail(msgs)
  /\ LET m == Head(msgs) IN
       IF Unmarshal(m.body).ok
       THEN /\ cur' = [body |-> m.body, hdr |-> m.hdr, why |-> whyDropped(m),
                       fs0 |-> fs, db0 |-> db]
            /\ cpc' = "handler"
            /\ jobs' = {Unmarshal(m.body).job}
            /\ UNCHANGED <<dlq, results, settled>>
       ELSE /\ results' = Append(results,
                            settledAs(m, whyDropped(m), unmarshalErrSettle,
                                      FALSE, NoMsg))
            /\ settled' = [body |-> m.body, hdr |-> m.hdr, herr |-> FALSE,
                           kind |-> unmarshalErrSettle, repub |-> NoMsg]
            /\ dlq' = IF unmarshalErrSettle = "nack"
                      THEN Append(dlq, m) ELSE dlq
            /\ UNCHANGED <<cur, cpc, jobs>>
  /\ UNCHANGED <<mainQ, ctxDone, pubv, handed, accepted, toPublish, ivars,
                 mode, fkind, fs, call, db, tx, nextId, outcomes, faults>>

\* handler(job) returned: nil is acknowledged; an error is republished with
\* x-retries + 1 and acknowledged while retries < maxRetries, otherwise
\* rejected to the DLQ
ConsumeJobsSettle(w) ==
  /\ cpc = "handler"
  /\ call[w].pc = "done"
  /\ outcomes' = IF call[w].xml /\ call[w].f \in Files
                 THEN [outcomes EXCEPT ![call[w].f] = Append(@, call[w].status)]
                 ELSE outcomes
  /\ call' = [call EXCEPT ![w] = NoCall]
  /\ LET m == [body |-> cur.body, hdr |-> cur.hdr]
         retries == extractRetries(cur.hdr)
         again == [body |-> cur.body, hdr |-> retryHeader(retries)] IN
       IF call[w].ret = "nil"
       THEN /\ results' = Append(results,
                            settledAs(m, cur.why, "ack", FALSE, NoMsg))
            /\ settled' = settle("ack", FALSE, NoMsg)
            /\ UNCHANGED <<mainQ, dlq>>
       ELSE IF shouldRetry(retries)
       THEN /\ results' = Append(results,
                            settledAs(m, cur.why, "ack", TRUE, again))
            /\ settled' = settle("ack", TRUE, again)
            /\ mainQ' = Append(mainQ, again)
            /\ UNCHANGED dlq
       ELSE /\ results' = Append(results,
                            settledAs(m, cur.why, "nack", TRUE, NoMsg))
            /\ settled' = settle("nack", TRUE, NoMsg)
            /\ dlq' = Append(dlq, m)
            /\ UNCHANGED mainQ
  /\ cur' = NoMsg
  /\ cpc' = "select"
  /\ UNCHANGED <<msgs, ctxDone, pubv, handed, accepted, toPublish, ivars,
                 mode, fkind, fs, jobs, db, tx, nextId, faults>>

\* ========================================================= package watcher
\* One watcher process: fsnotify events on incoming/ are handled one at a
\* time by handleEvent / handleIncomingFile.  The files are written by
\* someone else: they appear, change size and may disappear at any time.

\* os.Stat fails: no such file
NoFile == -1

\* what may be dropped into incoming/: stem "" stands for the file's own stem
DropKinds ==
  << [stem |-> "", ext |-> ".xml", bytes |-> "a1"],
     [stem |-> "", ext |-> ".ZIP", bytes |-> "zipB"],
     [stem |-> "", ext |-> ".txt", bytes |-> "junk"],
     [stem |-> "f.xml:Zone", ext |-> ".Identifier", bytes |-> "junk"],
     [stem |-> "ZONE.IDENTIFIER", ext |-> ".xml", bytes |-> "a1"] >>

dropName(f, k) ==
  [stem |-> IF DropKinds[k].stem = "" THEN Stems[f] ELSE DropKinds[k].stem,
   ext |-> DropKinds[k].ext]

AllNames == {dropName(f, k) : f \in Files, k \in DOMAIN DropKinds}

\* strings.ToLower on the basenames that occur
lowerName(n) ==
  [stem |-> CASE n.stem = "f.xml:Zone" -> "f.xml:zone"
              [] n.stem = "ZONE.IDENTIFIER" -> "zone.identifier"
              [] OTHER -> n.stem,
   ext |-> CASE n.ext = ".Identifier" -> ".identifier"
             [] OTHER -> ToLower(n.ext)]

\* strings.Contains(s, "zone.identifier") on stem + ext
containsZone(n) ==
  \/ n.stem = "zone.identifier"
  \/ n.stem = "f.xml:zone" /\ n.ext = ".identifier"

\* the check of the mutant: the name is not lowercased
isZoneIdentifierExact(n) == containsZone(n)

\* isZoneIdentifier: strings.Contains(strings.ToLower(name), "zone.identifier")
isZoneIdentifier(n) == containsZone(lowerName(n))

\* the switch of the mutant: .txt is promoted as well
promotableTxt(e) == e \in {".xml", ".zip", ".txt"}

\* handleIncomingFile: case ".xml", ".zip"
promotable(e) == e \in {".xml", ".zip"}

\* the test of the mutant: an unchanged size of zero counts as stable
isStableZero(size, last) == size = last

\* waitFileStable: size > 0 && size == lastSize
isStable(size, last) == size > 0 /\ size = last

\* i, last: the loop variables of waitFileStable; cur: the size just sampled;
\* pair: two consecutive samples gave the same positive size (history)
NoWt == [pc |-> "idle", n |-> NoName, id |-> <<>>, i |-> 0, last |-> NoFile,
         cur |-> NoFile, pair |-> FALSE, did |-> "none"]

\* handleIncomingFile has returned; what it did
wtDone(c, what) == [c EXCEPT !.pc = "done", !.did = what]

\* ------------------------------------------------------ the environment
\* a file appears in incoming/ with size sz (files are interchangeable, so
\* they appear in the order of their numbers)
Drop(f, k, sz) ==
  /\ fsize[f] = NoFile
  /\ f <= MaxDrops
  /\ \A g \in Files : g < f => fsize[g] # NoFile
  /\ at("incoming", dropName(f, k)) = {}
  /\ fsize' = [fsize EXCEPT ![f] = sz]
  /\ fs' = fs \cup {[d |-> "incoming", n |-> dropName(f, k),
                     b |-> DropKinds[k].bytes, id |-> <<f, 0>>]}
  /\ events' = events \cup {dropName(f, k)}
  /\ UNCHANGED <<qvars, proc, mode, fkind, jobs, call, db, tx, nextId, outcomes,
                 wt, published, faults>>

\* the writer appends to or rewrites a file of incoming/
Write(f) ==
  /\ \E e \in fs : e.d = "incoming" /\ e.id = <<f, 0>>
  /\ \E sz \in (0..MaxSize) \ {fsize[f]} : fsize' = [fsize EXCEPT ![f] = sz]
  /\ events' = events \cup {e.n : e \in {x \in fs : x.d = "incoming" /\ x.id = <<f, 0>>}}
  /\ UNCHANGED <<qvars, proc, wvars, wt, published, faults>>

\* someone removes a file of incoming/
Unlink(f) ==
  /\ faults > 0
  /\ faults' = faults - 1
  /\ \E e \in fs : e.d = "incoming" /\ e.id = <<f, 0>>
  /\ fs' = {e \in fs : ~ (e.d = "incoming" /\ e.id = <<f, 0>>)}
  /\ UNCHANGED <<qvars, mode, fkind, jobs, call, db, tx, nextId, outcomes,
                 ivars>>

\* ---------------------------------------------------------- the watcher
\* the mutant hands every event to a goroutine of its own
handleEventConcurrent(n) ==
  /\ n \in events
  /\ events' = events \ {n}
  /\ IF at("incoming", n) = {}
     THEN UNCHANGED <<fs, wt>>
     ELSE IF isZoneIdentifier(n)
     THEN /\ fs' = osRemove("incoming", n)
          /\ wt' = wtDone([NoWt EXCEPT !.n = n], "removed")
     ELSE IF promotable(ToLower(n.ext))
     THEN /\ wt' = [NoWt EXCEPT !.pc = "stable", !.n = n]
          /\ UNCHANGED fs
     ELSE /\ wt' = [NoWt EXCEPT !.pc = "toIgnored", !.n = n]
          /\ UNCHANGED fs
  /\ UNCHANGED <<qvars, proc, mode, fkind, jobs, call, db, tx, nextId, outcomes,
                 fsize, published, faults>>

\* handleEvent + handleIncomingFile up to the switch on the extension
handleEvent(n) ==
  /\ wt.pc = "idle"
  /\ n \in events
  /\ events' = events \ {n}
  /\ IF at("incoming", n) = {}
     THEN UNCHANGED <<fs, wt>>
     ELSE IF isZoneIdentifier(n)
     THEN /\ fs' = osRemove("incoming", n)
          /\ wt' = wtDone([NoWt EXCEPT !.n = n], "removed")
     ELSE IF promotable(ToLower(n.ext))
     THEN /\ wt' = [NoWt EXCEPT !.pc = "stable", !.n = n]
          /\ UNCHANGED fs
     ELSE /\ wt' = [NoWt EXCEPT !.pc = "toIgnored", !.n = n]
          /\ UNCHANGED fs
  /\ UNCHANGED <<qvars, proc, mode, fkind, jobs, call, db, tx, nextId, outcomes,
                 fsize, published, faults>>

\* waitFileStable: one iteration of the sampling loop
waitFileStable ==
  /\ wt.pc = "stable"
  /\ IF at("incoming", wt.n) = {}
     THEN wt' = wtDone([wt EXCEPT !.cur = NoFile], "unstable")
     ELSE LET e == CHOOSE e \in at("incoming", wt.n) : TRUE
              size == fsize[e.id[1]]
              seen == [wt EXCEPT !.cur = size,
                                 !.pair = @ \/ (size > 0 /\ size = wt.cur)] IN
            wt' = IF isStable(size, wt.last)
                  THEN [seen EXCEPT !.pc = "toProcessing"]
                  ELSE IF wt.i + 1 >= stableAttempts
                  THEN wtDone(seen, "unstable")
                  ELSE [seen EXCEPT !.i = @ + 1, !.last = size]
  /\ UNCHANGED <<qvars, proc, wvars, fsize, events, published, faults>>

\* moveToProcessing: os.Rename(incoming/n, processing/n)
moveToProcessing ==
  /\ wt.pc = "toProcessing"
  /\ fs' = osRename("incoming", wt.n, "processing")
  /\ wt' = IF at("incoming", wt.n) = {}
           THEN wtDone(wt, "renameErr")
           ELSE LET e == CHOOSE e \in at("incoming", wt.n) : TRUE IN
                  IF mode = "queue"
                  THEN [wt EXCEPT !.pc = "publish", !.id = e.id]
                  ELSE wtDone([wt EXCEPT !.id = e.id], "promoted")
  /\ UNCHANGED <<qvars, proc, mode, fkind, jobs, call, db, tx, nextId, outcomes,
                 fsize, events, published, faults>>

\* moveToIgnored: os.Rename(incoming/n, ignored/n)
moveToIgnored ==
  /\ wt.pc = "toIgnored"
  /\ fs' = osRename("incoming", wt.n, "ignored")
  /\ wt' = IF at("incoming", wt.n) = {}
           THEN wtDone(wt, "renameErr")
           ELSE LET e == CHOOSE e \in at("incoming", wt.n) : TRUE IN
                  wtDone([wt EXCEPT !.id = e.id], "ignored")
  /\ UNCHANGED <<qvars, proc, mode, fkind, jobs, call, db, tx, nextId, outcomes,
                 fsize, events, published, faults>>

\* os.Rename fails for another reason (permissions, another file system)
watcherRenameErr ==
  /\ wt.pc \in {"toProcessing", "toIgnored"}
  /\ faults > 0
  /\ faults' = faults - 1
  /\ wt' = wtDone(wt, "renameErr")
  /\ UNCHANGED <<qvars, proc, wvars, fsize, events, published>>

\* the job the mutant publishes: the kind keeps the extension as it is
publishedJobRaw(n) == [n |-> n, kind |-> n.ext]

\* moveToProcessing: queue.Job{Path: destPath, Filename: fileName, Kind: kind}
publishedJob(n) == jobOf(n)

\* the mutant backs the rename out when the publish fails
onPublishErrUndo(n) == osRename("processing", n, "incoming")

\* moveToProcessing: the error of rmq.PublishJob is logged, nothing else
onPublishErr(n) == fs

\* moveToProcessing: rmq.PublishJob succeeds
publishJob ==
  /\ wt.pc = "publish"
  /\ jobs' = jobs \cup {publishedJob(wt.n)}
  /\ published' = Append(published,
                    [job |-> publishedJob(wt.n), id |-> wt.id, ok |-> TRUE])
  /\ wt' = wtDone(wt, "promoted")
  /\ UNCHANGED <<qvars, proc, mode, fkind, fs, call, db, tx, nextId, outcomes,
                 fsize, events, faults>>

\* moveToProcessing: rmq.PublishJob returns an error, which is only logged;
\* the message may or may not have reached the broker
publishJobErr ==
  /\ wt.pc = "publish"
  /\ faults > 0
  /\ faults' = faults - 1
  /\ \E reached \in BOOLEAN :
       jobs' = IF reached THEN jobs \cup {publishedJob(wt.n)} ELSE jobs
  /\ published' = Append(published,
                    [job |-> publishedJob(wt.n), id |-> wt.id, ok |-> FALSE])
  /\ fs' = onPublishErr(wt.n)
  /\ wt' = wtDone(wt, "promoted")
  /\ UNCHANGED <<qvars, proc, mode, fkind, call, db, tx, nextId, outcomes,
                 fsize, events>>

\* back in the event loop
watcherReturn ==
  /\ wt.pc = "done"
  /\ wt' = NoWt
  /\ UNCHANGED <<qvars, proc, wvars, fsize, events, published, faults>>

\* ------------------------------------------------------ Watcher.Run
\* Run before its event loop: processExistingFiles (os.ReadDir, then
\* handleIncomingFile for each entry), then watcher.Add(IncomingDir).  The
\* position is proc["watcher"].pc: "run" before the listing, "sweep" while
\* the listed files are handled, "watch" once the subscription exists.

\* a file is created in incoming/ while no subscription exists: no event
DropUnwatched(f, k) ==
  /\ proc["watcher"].pc \in {"run", "sweep"}
  /\ fsize[f] = NoFile
  /\ f <= MaxDrops
  /\ \A g \in Files : g < f => fsize[g] # NoFile
  /\ at("incoming", dropName(f, k)) = {}
  /\ fsize' = [fsize EXCEPT ![f] = MaxSize]
  /\ fs' = fs \cup {[d |-> "incoming", n |-> dropName(f, k),
                     b |-> DropKinds[k].bytes, id |-> <<f, 0>>]}
  /\ UNCHANGED <<qvars, proc, mode, fkind, jobs, call, db, tx, nextId, outcomes,
                 events, wt, published, faults>>

\* processExistingFiles: os.ReadDir lists incoming/; each listed file is then
\* handled like an arrival, before anything else
processExistingFiles ==
  /\ proc["watcher"].pc = "run"
  /\ events' = {e.n : e \in {x \in fs : x.d = "incoming"}}
  /\ proc' = [proc EXCEPT !["watcher"].pc = "sweep"]
  /\ UNCHANGED <<qvars, wvars, fsize, wt, published, faults>>

\* w.watcher.Add(IncomingDir), after the last listed file was handled
watcherAdd ==
  /\ proc["watcher"].pc = "sweep"
  /\ events = {}
  /\ wt.pc = "idle"
  /\ proc' = [proc EXCEPT !["watcher"].pc = "watch"]
  /\ UNCHANGED <<qvars, wvars, fsize, events, wt, published, faults>>

\* ------------------------------------------------------------ specifications
\* the queue side before anything is published
QueueStart ==
  /\ mainQ = <<>>
  /\ dlq = <<>>
  /\ msgs = <<>>
  /\ cur = NoMsg
  /\ cpc = "select"
  /\ ctxDone = FALSE
  /\ pub = [c \in Clients |-> NoPub]
  /\ sent = [c \in Clients |-> <<>>]
  /\ confirmCh = [c \in Clients |-> <<>>]
  /\ nextTag = [c \in Clients |-> 1]
  /\ toPublish = Jobs
  /\ handed = [j \in Jobs |-> <<>>]
  /\ results = [j \in Jobs |-> <<>>]
  /\ settled = NoSettle
  /\ accepted = [c \in Clients |-> {}]

\* the watcher side of the queue and worker specifications: the files are
\* in processing/ already
WatcherAbsent ==
  /\ fsize = <<>>
  /\ events = {}
  /\ wt = <<>>
  /\ published = <<>>
  /\ proc = <<>>

\* the queue side of the worker specifications: the jobs are in the
\* variable jobs, the files are handed to handleJob one by one
QueueAbsent ==
  /\ mainQ = <<>>
  /\ dlq = <<>>
  /\ msgs = <<>>
  /\ cur = NoMsg
  /\ cpc = "returned"
  /\ ctxDone = FALSE
  /\ pub = <<>>
  /\ sent = <<>>
  /\ confirmCh = <<>>
  /\ nextTag = <<>>
  /\ toPublish = {}
  /\ handed = <<>>
  /\ results = <<>>
  /\ settled = NoSettle
  /\ accepted = <<>>

\* the worker side before any handler runs; m: the mode, k: the files
WorkerStart(m, k) ==
  /\ mode = m
  /\ fkind = k
  /\ fs = {[d |-> "processing",
             n |-> [stem |-> Stems[f], ext |-> FileKinds[k[f]].ext],
             b |-> FileKinds[k[f]].bytes,
             id |-> <<f, 0>>] : f \in Files}
  /\ jobs = IF m = "queue"
            THEN {jobOf([stem |-> Stems[f], ext |-> FileKinds[k[f]].ext]) :
                    f \in {g \in Files :
                             ToLower(FileKinds[k[g]].ext) \in {".xml", ".zip"}}}
            ELSE {}
  /\ call = [w \in Workers |-> NoCall]
  /\ db = NoRows
  /\ tx = [w \in Workers |-> NoTx]
  /\ nextId = 1
  /\ outcomes = [f \in Files |-> <<>>]
  /\ WatcherAbsent

\* the worker side of the queue specifications: the handler is HandlerNil /
\* HandlerErrRetry / HandlerErrNack, no file and no store is looked at
WorkerAbsent ==
  /\ WatcherAbsent
  /\ mode = "queue"
  /\ fkind = <<>>
  /\ fs = {}
  /\ jobs = {}
  /\ call = <<>>
  /\ db = <<>>
  /\ tx = <<>>
  /\ nextId = 1
  /\ outcomes = <<>>

InitQueueCommon ==
  /\ QueueStart
  /\ WorkerAbsent

InitQueue ==
  /\ InitQueueCommon
  /\ faults = MaxFaults

InitQueueOk ==
  /\ InitQueueCommon
  /\ faults = 0

NextQueueOk ==
  \/ \E j \in Jobs : PublishJob(j)
  \/ PublishJobReturn
  \/ \E c \in Clients : PublishSend(c)
  \/ \E c \in Clients : PublishConfirm(c)
  \/ PublishCancelled
  \/ \E c \in Clients : BrokerAccept(c)
  \/ Deliver
  \/ ConsumeReceive
  \/ HandlerNil
  \/ HandlerErrRetry
  \/ HandlerErrNack
  \/ RepublishAck
  \/ ConsumeCancel
  \/ Cancel

NextQueueFault ==
  \/ \E c \in Clients : PublishSendErr(c)
  \/ \E c \in Clients : PublishDeadline(c)
  \/ \E c \in Clients : BrokerNack(c)

NextQueue ==
  \/ NextQueueOk
  \/ NextQueueFault

SpecQueue == InitQueue /\ [][NextQueue]_vars

SpecQueueOk == InitQueueOk /\ [][NextQueueOk]_vars

\* the files of processing/ at start, listed by kind (files are
\* interchangeable, so the kinds are taken in non-decreasing order)
InitFiles(K) ==
  /\ QueueAbsent
  /\ \E m \in {"queue", "polling"} :
     \E k \in [Files -> K] :
       /\ \A f, g \in Files : f < g => k[f] <= k[g]
       /\ WorkerStart(m, k)

\* the kinds of the worker specifications: no archive
XmlKinds ==
  {k \in DOMAIN FileKinds :
     ToLower(FileKinds[k].ext) # ".zip" /\ FileKinds[k].bytes # "repdup"}

\* the kinds of the child-row specification: the invoices whose child rows
\* repeat a unique key, and one valid invoice
ChildKinds ==
  {k \in DOMAIN FileKinds : FileKinds[k].bytes \in {"a1", "rep", "repdup"}}

\* the kinds of the archive specification: archives and one valid .xml
ZipKinds ==
  {k \in DOMAIN FileKinds :
     ToLower(FileKinds[k].ext) = ".zip" \/ FileKinds[k].bytes = "a1"}

InitWorkerCommon == InitFiles(XmlKinds)

InitWorker ==
  /\ InitWorkerCommon
  /\ faults = MaxFaults

InitWorkerOk ==
  /\ InitWorkerCommon
  /\ faults = 0

NextWorkerOk ==
  \/ \E w \in Workers, j \in AllJobs : handleJob(w, j)
  \/ \E w \in Workers, f \in Files : handleProcessingFile(w, fileName(f))
  \/ \E w \in Workers : processXMLParse(w)
  \/ \E w \in Workers : SaveBegin(w)
  \/ \E w \in Workers : insertNFe(w)
  \/ \E w \in Workers : insertNFeXML(w)
  \/ \E w \in Workers : insertItens(w)
  \/ \E w \in Workers : insertDuplicatas(w)
  \/ \E w \in Workers : insertPagamentos(w)
  \/ \E w \in Workers : SaveCommit(w)
  \/ \E w \in Workers : moveFile(w)
  \/ \E w \in Workers : handlerReturn(w)

NextWorkerFault ==
  \/ \E w \in Workers : SaveFault(w)
  \/ \E w \in Workers : moveFileErr(w)

NextWorker ==
  \/ NextWorkerOk
  \/ NextWorkerFault

SpecWorker == InitWorker /\ [][NextWorker]_vars

SpecWorkerOk == InitWorkerOk /\ [][NextWorkerOk]_vars

InitChild ==
  /\ InitFiles(ChildKinds)
  /\ faults = MaxFaults

SpecChild == InitChild /\ [][NextWorker]_vars

InitZip ==
  /\ InitFiles(ZipKinds)
  /\ faults = MaxFaults

NextZip ==
  \/ NextWorker
  \/ \E w \in Workers : processZIPOpen(w)
  \/ \E w \in Workers : processZIPEntry(w)
  \/ \E w \in Workers : processZIPExtractErr(w)

SpecZip == InitZip /\ [][NextZip]_vars

\* the watcher alone: nothing consumes the jobs, nobody polls processing/
InitWatcher ==
  /\ QueueAbsent
  /\ \E m \in {"queue", "polling"} : mode = m
  /\ fkind = <<>>
  /\ fs = {}
  /\ jobs = {}
  /\ call = <<>>
  /\ db = <<>>
  /\ tx = <<>>
  /\ nextId = 1
  /\ outcomes = <<>>
  /\ fsize = [f \in Files |-> NoFile]
  /\ events = {}
  /\ wt = NoWt
  /\ published = <<>>
  /\ proc = <<>>
  /\ faults = MaxFaults

NextWatcher ==
  \/ \E f \in Files, k \in DOMAIN DropKinds, sz \in 0..MaxSize : Drop(f, k, sz)
  \/ \E f \in Files : Write(f)
  \/ \E f \in Files : Unlink(f)
  \/ \E n \in AllNames : handleEvent(n)
  \/ waitFileStable
  \/ moveToProcessing
  \/ moveToIgnored
  \/ watcherRenameErr
  \/ publishJob
  \/ publishJobErr
  \/ watcherReturn

SpecWatcher == InitWatcher /\ [][NextWatcher]_vars

\* watcher and workers together: files arrive in incoming/ with their
\* final size (no writer is seen at work), the
\* watcher promotes them, the workers take them from processing/
InitPipeline ==
  /\ QueueAbsent
  /\ \E m \in {"queue", "polling"} : mode = m
  /\ fkind = <<>>
  /\ fs = {}
  /\ jobs = {}
  /\ call = [w \in Workers |-> NoCall]
  /\ db = NoRows
  /\ tx = [w \in Workers |-> NoTx]
  /\ nextId = 1
  /\ outcomes = [f \in Files |-> <<>>]
  /\ fsize = [f \in Files |-> NoFile]
  /\ events = {}
  /\ wt = NoWt
  /\ published = <<>>
  /\ proc = <<>>
  /\ faults = MaxFaults

NextPipeline ==
  \/ \E f \in Files, k \in DOMAIN DropKinds : Drop(f, k, MaxSize)
  \/ \E n \in AllNames : handleEvent(n)
  \/ waitFileStable
  \/ moveToProcessing
  \/ moveToIgnored
  \/ watcherRenameErr
  \/ publishJob
  \/ publishJobErr
  \/ watcherReturn
  \/ \E w \in Workers, j \in AllJobs : handleJob(w, j)
  \/ \E w \in Workers, n \in AllNames : handleProcessingFile(w, n)
  \/ \E w \in Workers : processXMLParse(w)
  \/ \E w \in Workers : SaveBegin(w)
  \/ \E w \in Workers : insertNFe(w)
  \/ \E w \in Workers : insertNFeXML(w)
  \/ \E w \in Workers : insertItens(w)
  \/ \E w \in Workers : insertDuplicatas(w)
  \/ \E w \in Workers : insertPagamentos(w)
  \/ \E w \in Workers : SaveCommit(w)
  \/ \E w \in Workers : SaveFault(w)
  \/ \E w \in Workers : moveFile(w)
  \/ \E w \in Workers : moveFileErr(w)
  \/ \E w \in Workers : processZIPOpen(w)
  \/ \E w \in Workers : processZIPEntry(w)
  \/ \E w \in Workers : processZIPExtractErr(w)
  \/ \E w \in Workers : handlerReturn(w)

SpecPipeline == InitPipeline /\ [][NextPipeline]_vars

\* the watcher and the workers keep running: every step of theirs that is
\* no fault of the environment and no new drop is taken if it stays possible
PipelineRun == NextPipeline /\ faults' = faults /\ fsize' = fsize

SpecPipelineLive == InitPipeline /\ [][NextPipeline]_vars /\ WF_vars(PipelineRun)

\* one consumer loop over MaxJobs deliveries: valid jobs, jobs of an unknown
\* kind, jobs for a file that is not there, malformed envelopes
ConsumeNames ==
  {[stem |-> Stems[f], ext |-> ".xml"] : f \in 1..(MaxFiles + 1)}

ConsumeBodies ==
  {Malformed} \cup
  {[json |-> TRUE, job |-> [n |-> n, kind |-> k]] :
     n \in ConsumeNames, k \in {"xml", "pdf"}}

InitConsume ==
  /\ \E q \in [1..MaxJobs -> ConsumeBodies] :
       mainQ = [i \in 1..MaxJobs |-> [body |-> q[i], hdr |-> Int32(0)]]
  /\ dlq = <<>>
  /\ msgs = <<>>
  /\ cur = NoMsg
  /\ cpc = "select"
  /\ ctxDone = FALSE
  /\ pub = <<>>
  /\ sent = <<>>
  /\ confirmCh = <<>>
  /\ nextTag = <<>>
  /\ toPublish = {}
  /\ handed = <<>>
  /\ results = <<>>
  /\ settled = NoSettle
  /\ accepted = <<>>
  /\ mode = "queue"
  /\ fkind = [f \in Files |-> f]
  /\ fs = {[d |-> "processing", n |-> [stem |-> Stems[f], ext |-> ".xml"],
            b |-> FileKinds[f].bytes, id |-> <<f, 0>>] : f \in Files}
  /\ jobs = {}
  /\ call = [w \in Workers |-> NoCall]
  /\ db = NoRows
  /\ tx = [w \in Workers |-> NoTx]
  /\ nextId = 1
  /\ outcomes = [f \in Files |-> <<>>]
  /\ WatcherAbsent
  /\ faults = MaxFaults

NextConsume ==
  \/ Deliver
  \/ ConsumeJobsReceive
  \/ \E w \in Workers, b \in ConsumeBodies : handleJob(w, b.job)
  \/ \E w \in Workers : processXMLParse(w)
  \/ \E w \in Workers : SaveBegin(w)
  \/ \E w \in Workers : insertNFe(w)
  \/ \E w \in Workers : insertNFeXML(w)
  \/ \E w \in Workers : insertItens(w)
  \/ \E w \in Workers : insertDuplicatas(w)
  \/ \E w \in Workers : insertPagamentos(w)
  \/ \E w \in Workers : SaveCommit(w)
  \/ \E w \in Workers : SaveFault(w)
  \/ \E w \in Workers : moveFile(w)
  \/ \E w \in Workers : moveFileErr(w)
  \/ \E w \in Workers : ConsumeJobsSettle(w)

SpecConsume == InitConsume /\ [][NextConsume]_vars

\* the archive specification with every failure of the scratch directory:
\* MaxDrops files of processing/ at start
InitArchive ==
  /\ QueueAbsent
  /\ WatcherAbsent
  /\ \E m \in {"queue", "polling"} :
     \E k \in [Files -> ZipKinds] :
       /\ \A f, g \in Files : f < g => k[f] <= k[g]
       /\ \A f \in Files : f > MaxDrops => k[f] = k[MaxDrops]
       /\ mode = m
       /\ fkind = k
       /\ fs = {[d |-> "processing",
                 n |-> [stem |-> Stems[f], ext |-> FileKinds[k[f]].ext],
                 b |-> FileKinds[k[f]].bytes,
                 id |-> <<f, 0>>] : f \in 1..MaxDrops}
       /\ jobs = IF m = "queue"
                 THEN {jobOf([stem |-> Stems[f], ext |-> FileKinds[k[f]].ext]) :
                         f \in 1..MaxDrops}
                 ELSE {}
  /\ call = [w \in Workers |-> NoCall]
  /\ db = NoRows
  /\ tx = [w \in Workers |-> NoTx]
  /\ nextId = 1
  /\ outcomes = [f \in Files |-> <<>>]
  /\ faults = MaxFaults

NextArchive ==
  \/ NextZip
  \/ \E w \in Workers : processZIPMkdirErr(w)
  \/ \E w \in Workers : processZIPCopyErr(w)

SpecArchive == InitArchive /\ [][NextArchive]_vars

\* a step of the watcher, the broker or the consumer: anything but the signal
NextQueueRun == NextQueueOk /\ ctxDone' = ctxDone

\* the queue with a broker that accepts everything, under fair scheduling:
\* goroutines and broker keep running, the signal may never come
SpecQueueLive == InitQueueOk /\ [][NextQueueOk]_vars /\ WF_vars(NextQueueRun)

\* the numeric Go types an amqp.Table value can have
NumericTypes == {"uint8", "int8", "int16", "int32", "int64", "float32", "float64"}

\* the x-retries headers a delivery can carry: none, or a number of any
\* numeric type
HeaderValues ==
  {NoHeader} \cup {[t |-> t, v |-> v] : t \in NumericTypes, v \in 0..maxRetries}

\* the consumer loop over one delivery whose x-retries header was written by
\* any AMQP client: the job is in the main queue already, the watcher
\* publishes nothing
InitRetries ==
  /\ \E h \in HeaderValues : mainQ = <<[body |-> 1, hdr |-> h]>>
  /\ dlq = <<>>
  /\ msgs = <<>>
  /\ cur = NoMsg
  /\ cpc = "select"
  /\ ctxDone = FALSE
  /\ pub = [c \in Clients |-> NoPub]
  /\ sent = [c \in Clients |-> <<>>]
  /\ confirmCh = [c \in Clients |-> <<>>]
  /\ nextTag = [c \in Clients |-> 1]
  /\ toPublish = {}
  /\ handed = [j \in Jobs |-> <<>>]
  /\ results = [j \in Jobs |-> <<>>]
  /\ settled = NoSettle
  /\ accepted = [c \in Clients |-> {}]
  /\ WorkerAbsent
  /\ faults = 0

NextRetries ==
  \/ \E c \in Clients : PublishSend(c)
  \/ \E c \in Clients : PublishConfirm(c)
  \/ \E c \in Clients : BrokerAccept(c)
  \/ Deliver
  \/ ConsumeReceive
  \/ HandlerNil
  \/ HandlerErrRetry
  \/ HandlerErrNack
  \/ RepublishAck

SpecRetries == InitRetries /\ [][NextRetries]_vars

\* ------------------------------------------------------------ the daemons
\* cmd/nfe-drop-watcher and cmd/nfe-drop-worker: main loads the
\* configuration (the worker also opens the database), builds the watcher or
\* the worker with New, and calls Run under a context that SIGINT/SIGTERM
\* cancel.
Daemons == {"watcher", "worker"}

\* the steps of main before New that can fail, per daemon
InitSteps ==
  [watcher |-> {"config", "fsnotify"}, worker |-> {"config", "db_open", "db_ping"}]

\* a daemon that has just started: b is NFE_DROP_QUEUE_BACKEND (lowercased),
\* up tells whether the broker accepts the connection
startProc(b, up) ==
  [pc |-> "main", backend |-> b, brokerUp |-> up, rmq |-> FALSE, sig |-> FALSE,
   exit |-> -1, why |-> "none"]

\* os.Exit(code), or the return of main (code 0)
osExit(d, code, why) ==
  [proc EXCEPT ![d].pc = "exited", ![d].exit = code, ![d].why = why]

\* config.Load, sql.Open, db.Ping or fsnotify.NewWatcher fails: os.Exit(1)
mainInitErr(d, why) ==
  /\ proc[d].pc = "main"
  /\ why \in InitSteps[d]
  /\ faults > 0
  /\ faults' = faults - 1
  /\ proc' = osExit(d, 1, why)
  /\ UNCHANGED <<qvars, wvars, fsize, events, wt, published>>

\* watcher.New / worker.New with NFE_DROP_QUEUE_BACKEND: when NewRabbitMQ
\* fails, watcher.New returns the error and main exits with 1, while
\* worker.New logs it and returns a worker without queue (polling mode)
mainNew(d) ==
  /\ proc[d].pc = "main"
  /\ proc' = IF proc[d].backend = "rabbitmq" /\ ~ proc[d].brokerUp
             THEN IF d = "watcher"
                  THEN osExit(d, 1, "broker")
                  ELSE [proc EXCEPT ![d].pc = "run", ![d].rmq = FALSE]
             ELSE [proc EXCEPT ![d].pc = "run",
                               ![d].rmq = (proc[d].backend = "rabbitmq")]
  /\ UNCHANGED <<qvars, wvars, fsize, events, wt, published, faults>>

\* SIGINT/SIGTERM while Run is running: the context of signal.NotifyContext
\* is cancelled
mainSignal(d) ==
  /\ proc[d].pc = "run"
  /\ ~ proc[d].sig
  /\ proc' = [proc EXCEPT ![d].sig = TRUE]
  /\ UNCHANGED <<qvars, wvars, fsize, events, wt, published, faults>>

\* Run returns ctx.Err() = context.Canceled: main returns, exit code 0
runCancelled(d) ==
  /\ proc[d].pc = "run"
  /\ proc[d].sig
  /\ proc' = osExit(d, 0, "cancel")
  /\ UNCHANGED <<qvars, wvars, fsize, events, wt, published, faults>>

\* Run returns another error (os.MkdirAll, watcher.Add, ch.Consume, the
\* delivery channel closed): os.Exit(1)
runErr(d) ==
  /\ proc[d].pc = "run"
  /\ faults > 0
  /\ faults' = faults - 1
  /\ proc' = osExit(d, 1, "run")
  /\ UNCHANGED <<qvars, wvars, fsize, events, wt, published>>

InitDaemons ==
  /\ QueueAbsent
  /\ mode = "polling"
  /\ fkind = <<>>
  /\ fs = {}
  /\ jobs = {}
  /\ call = <<>>
  /\ db = <<>>
  /\ tx = <<>>
  /\ nextId = 1
  /\ outcomes = <<>>
  /\ fsize = <<>>
  /\ events = {}
  /\ wt = <<>>
  /\ published = <<>>
  /\ \E b \in [Daemons -> {"rabbitmq", ""}], up \in [Daemons -> BOOLEAN] :
       proc = [d \in Daemons |-> startProc(b[d], up[d])]
  /\ faults = MaxFaults

NextDaemons ==
  \/ \E d \in Daemons, why \in {"config", "db_open", "db_ping", "fsnotify"} :
       mainInitErr(d, why)
  \/ \E d \in Daemons : mainNew(d)
  \/ \E d \in Daemons : mainSignal(d)
  \/ \E d \in Daemons : runCancelled(d)
  \/ \E d \in Daemons : runErr(d)

SpecDaemons == InitDaemons /\ [][NextDaemons]_vars

\* ------------------------------------------------------------ the parser
\* buildParsedFrom on the access key: a string is a sequence of characters;
\* a document is what xml.Unmarshal found: whether protNFe is there, its
\* chNFe, and the Id attribute of infNFe.

\* chave_acesso CHAR(44)
KeyLen == 44

\* a text of n digits
digits(n) == [i \in 1..n |-> "1"]

\* onlyDigits: the runes '0'..'9' of s, in order
onlyDigits(s) ==
  SelectSeq(s, LAMBDA r : r \in {"0", "1", "2", "3", "4", "5", "6", "7", "8", "9"})

\* strings.TrimPrefix(id, "NFe")
TrimPrefixNFe(id) ==
  IF Len(id) >= 3 /\ SubSeq(id, 1, 3) = <<"N", "F", "e">>
  THEN SubSeq(id, 4, Len(id))
  ELSE id

\* extractChave: TrimSpace (the documents carry no outer blanks), TrimPrefix
extractChave(id) == TrimPrefixNFe(id)

\* buildParsedFrom: ChaveAcesso
chaveOf(doc) ==
  LET fromProt == IF doc.prot /\ doc.chNFe # <<>>
                  THEN onlyDigits(doc.chNFe) ELSE <<>> IN
    IF fromProt # <<>> THEN fromProt ELSE onlyDigits(extractChave(doc.id))

\* the keys and identifiers of the documents: of the right length, one
\* digit short, one digit long, empty
KeyTexts ==
  {digits(n) : n \in {0, KeyLen - 1, KeyLen, KeyLen + 1}}

Documents ==
  {[prot |-> p, chNFe |-> k, id |-> pre \o i] :
     p \in BOOLEAN, k \in KeyTexts, i \in KeyTexts,
     pre \in {<<>>, <<"N", "F", "e">>, <<"I", "D">>}}

\* ParseFile on a document whose ide has a non-zero mod: buildParsedFrom
\* returns (p, nil)
parseDocument(w, doc) ==
  /\ call[w].pc = "idle"
  /\ call' = [call EXCEPT ![w].pc = "done",
                          ![w].parsed = [NoParsed EXCEPT !.ok = TRUE,
                                                         !.chave = chaveOf(doc)],
                          ![w].b = doc]
  /\ UNCHANGED <<qvars, ivars, mode, fkind, fs, jobs, db, tx, nextId, outcomes,
                 faults>>

InitParser ==
  /\ QueueAbsent
  /\ WatcherAbsent
  /\ mode = "polling"
  /\ fkind = <<>>
  /\ fs = {}
  /\ jobs = {}
  /\ call = [w \in Workers |-> NoCall]
  /\ db = NoRows
  /\ tx = [w \in Workers |-> NoTx]
  /\ nextId = 1
  /\ outcomes = [f \in Files |-> <<>>]
  /\ faults = 0

NextParser ==
  \/ \E w \in Workers, doc \in Documents : parseDocument(w, doc)
  \/ \E w \in Workers : handlerReturn(w)

SpecParser == InitParser /\ [][NextParser]_vars

\* the watcher from the start of Run: files arrive before the listing,
\* during the sweep and after the subscription
InitStartup ==
  /\ QueueAbsent
  /\ \E m \in {"queue", "polling"} : mode = m
  /\ fkind = <<>>
  /\ fs = {}
  /\ jobs = {}
  /\ call = <<>>
  /\ db = <<>>
  /\ tx = <<>>
  /\ nextId = 1
  /\ outcomes = <<>>
  /\ fsize = [f \in Files |-> NoFile]
  /\ events = {}
  /\ wt = NoWt
  /\ published = <<>>
  /\ proc = [d \in Daemons |-> [startProc("", FALSE) EXCEPT !.pc = "run"]]
  /\ faults = 0

NextStartup ==
  \/ \E f \in Files, k \in DOMAIN DropKinds : DropUnwatched(f, k)
  \/ processExistingFiles
  \/ watcherAdd
  \/ \E f \in Files, k \in DOMAIN DropKinds :
       proc["watcher"].pc = "watch" /\ Drop(f, k, MaxSize)
  \/ \E n \in AllNames : handleEvent(n)
  \/ waitFileStable
  \/ moveToProcessing
  \/ moveToIgnored
  \/ publishJob
  \/ watcherReturn

\* the watcher keeps running: no new file, no fault
StartupRun == NextStartup /\ fsize' = fsize /\ faults' = faults

SpecStartup == InitStartup /\ [][NextStartup]_vars /\ WF_vars(StartupRun)

\* ------------------------------------------------- the watcher's publishing
\* moveToProcessing: w.rmq.PublishJob(ctx, job) is called and awaited
rmqPublishJob ==
  /\ wt.pc = "publish"
  /\ pub["watcher"].pc = "idle"
  /\ publishCall("watcher", publishedJob(wt.n), Int32(0))
  /\ wt' = [wt EXCEPT !.pc = "publishing"]
  /\ UNCHANGED <<brokerv, consv, sent, confirmCh, nextTag, histv, toPublish, proc,
                 wvars, fsize, events, published, faults>>

\* rmq.PublishJob returns to moveToProcessing, which logs the result
rmqPublishJobReturn ==
  /\ wt.pc = "publishing"
  /\ pub["watcher"].pc = "ret"
  /\ published' = Append(published,
                    [job |-> pub["watcher"].body, id |-> wt.id,
                     ok |-> pub["watcher"].res = "nil"])
  /\ pub' = [pub EXCEPT !["watcher"] = NoPub]
  /\ wt' = wtDone(wt, "promoted")
  /\ UNCHANGED <<brokerv, consv, sent, confirmCh, nextTag, histv, toPublish, proc,
                 wvars, fsize, events, faults>>

\* kinds of file the ordering is checked with: XML, archive, neither
OrderKinds == {1, 2, 3}

\* queue mode, no consumer; every file lies whole in incoming/, its event is
\* waiting in the fsnotify channel
InitOrder ==
  /\ mainQ = <<>>
  /\ dlq = <<>>
  /\ msgs = <<>>
  /\ cur = NoMsg
  /\ cpc = "returned"
  /\ ctxDone = FALSE
  /\ pub = [c \in Clients |-> NoPub]
  /\ sent = [c \in Clients |-> <<>>]
  /\ confirmCh = [c \in Clients |-> <<>>]
  /\ nextTag = [c \in Clients |-> 1]
  /\ toPublish = {}
  /\ handed = <<>>
  /\ results = <<>>
  /\ settled = NoSettle
  /\ accepted = [c \in Clients |-> {}]
  /\ mode = "queue"
  /\ fkind = <<>>
  /\ jobs = {}
  /\ call = <<>>
  /\ db = <<>>
  /\ tx = <<>>
  /\ nextId = 1
  /\ outcomes = <<>>
  /\ \E ks \in [Files -> OrderKinds] :
       /\ fs = {[d |-> "incoming", n |-> dropName(f, ks[f]),
                 b |-> DropKinds[ks[f]].bytes, id |-> <<f, 0>>] : f \in Files}
       /\ events = {dropName(f, ks[f]) : f \in Files}
  /\ fsize = [f \in Files |-> MaxSize]
  /\ wt = NoWt
  /\ published = <<>>
  /\ proc = <<>>
  /\ faults = MaxFaults

NextOrder ==
  \/ \E n \in AllNames : handleEvent(n)
  \/ waitFileStable
  \/ moveToProcessing
  \/ moveToIgnored
  \/ rmqPublishJob
  \/ PublishSend("watcher")
  \/ PublishSendErr("watcher")
  \/ BrokerAccept("watcher")
  \/ BrokerNack("watcher")
  \/ PublishConfirm("watcher")
  \/ PublishDeadline("watcher")
  \/ rmqPublishJobReturn
  \/ watcherReturn

SpecOrder == InitOrder /\ [][NextOrder]_vars

\* =================================================================== claims

\* where a job's message may be
inSeq(q, j) == \E i \in 1..Len(q) : q[i].body = j
inFlight(j) ==
  \/ inSeq(mainQ, j)
  \/ inSeq(msgs, j)
  \/ cur.body = j
  \/ inSeq(sent["watcher"], j)
  \/ inSeq(sent["worker"], j)
  \/ \E c \in Clients : pub[c].pc = "send" /\ pub[c].body = j
allErr(j) == \A i \in 1..Len(results[j]) : results[j][i] = "err"

\* C1: when the handler returns an error for a delivery with x-retries r, then for
\* r < maxRetries ConsumeJobs passes the same body with x-retries r+1 to publish
\* while the delivery is still unacknowledged, and acks it only once that publish
\* call has returned; for r >= maxRetries it nacks the delivery to the dead-letter
\* queue and starts no publish.
C1_RepublishThenAck ==
  [][ /\ (cpc = "handler" /\ cpc' # "handler"
            /\ results'[cur.body] = Append(results[cur.body], "err"))
         => IF extractRetries(cur.hdr) < maxRetries
            THEN /\ cur' = cur
                 /\ dlq' = dlq
                 /\ pub'["worker"].pc = "send"
                 /\ pub'["worker"].body = cur.body
                 /\ pub'["worker"].hdr = Int32(extractRetries(cur.hdr) + 1)
            ELSE /\ cur' = NoMsg
                 /\ dlq' = Append(dlq, cur)
                 /\ settled'.kind = "nack"
                 /\ mainQ' = mainQ
                 /\ pub' = pub
                 /\ sent' = sent
      /\ (cpc = "republish" /\ cpc' # "republish")
         => /\ pub["worker"].pc = "ret"
            /\ cur' = NoMsg
            /\ dlq' = dlq
            /\ settled'.kind = "ack"
            /\ settled'.herr
            /\ settled'.repub = [body |-> cur.body,
                                 hdr |-> Int32(extractRetries(cur.hdr) + 1)]
    ]_vars

\* C1 witness: a failed delivery was acked and its republication, with the counter
\* one higher, is in the main queue
C1_Witness ==
  /\ settled.kind = "ack"
  /\ settled.herr
  /\ settled.repub.hdr.v = settled.hdr.v + 1
  /\ \E i \in 1..Len(mainQ) : mainQ[i] = settled.repub

\* C2: every message in the main queue, pushed to the consumer or being handled
\* carries an int32 x-retries in 0..maxRetries, and every message in the
\* dead-letter queue carries x-retries = maxRetries.
C2_RetriesInRange ==
  /\ \A i \in 1..Len(mainQ) : mainQ[i].hdr.t = "int32" /\ mainQ[i].hdr.v \in 0..maxRetries
  /\ \A i \in 1..Len(msgs) : msgs[i].hdr.t = "int32" /\ msgs[i].hdr.v \in 0..maxRetries
  /\ cur # NoMsg => cur.hdr.t = "int32" /\ cur.hdr.v \in 0..maxRetries
  /\ \A i \in 1..Len(dlq) : dlq[i].hdr.t = "int32" /\ dlq[i].hdr.v = maxRetries

\* C2 witness: a message is dead-lettered while another, already retried, is being handled
C2_Witness ==
  /\ dlq # <<>>
  /\ cur # NoMsg
  /\ cur.hdr.v > 0

\* C3: with a broker that accepts every republication, a job is handed to the
\* handler with x-retries 0, 1, 2, ... and at most maxRetries+1 times; only its last
\* handling can succeed, and after a success its message is gone for good; a job
\* whose every handling failed and whose message is at rest was handed exactly
\* maxRetries+1 times and lies, once, in the dead-letter queue with
\* x-retries = maxRetries, from where it is never delivered again.
C3_Lifecycle ==
  \A j \in Jobs :
    /\ Len(handed[j]) <= maxRetries + 1
    /\ \A i \in 1..Len(handed[j]) : handed[j][i] = i - 1
    /\ Len(results[j]) \in {Len(handed[j]), Len(handed[j]) - 1}
    /\ \A i \in 1..Len(results[j]) : i < Len(results[j]) => results[j][i] = "err"
    /\ (Len(results[j]) > 0 /\ ~allErr(j))
          => ~inFlight(j) /\ ~inSeq(dlq, j) /\ Len(handed[j]) = Len(results[j])
    /\ (results[j] = <<"nil">>) => Len(handed[j]) = 1
    /\ (Len(results[j]) > 0 /\ allErr(j) /\ ~inFlight(j))
          => /\ Len(handed[j]) = maxRetries + 1
             /\ Len(results[j]) = maxRetries + 1
             /\ Cardinality({i \in 1..Len(dlq) : dlq[i].body = j}) = 1
    /\ inSeq(dlq, j)
          => /\ ~inFlight(j)
             /\ allErr(j)
             /\ Len(results[j]) = maxRetries + 1

\* C3 witness: one job failed maxRetries+1 times and is dead-lettered, another
\* succeeded at its first handling
C3_Witness ==
  \E j, k \in Jobs :
    /\ inSeq(dlq, j)
    /\ Len(handed[j]) = maxRetries + 1
    /\ results[k] = <<"nil">>

\* C4: a publish call returns success only for the positive confirmation of its own
\* publishing, returns the nack error only for its own negative confirmation, and a
\* publish call that waits finds in the confirm channel no confirmation of an
\* earlier publishing.
C4_OwnConfirmation ==
  \A c \in Clients :
    /\ (pub[c].pc = "ret" /\ pub[c].res = "nil")
          => pub[c].got = pub[c].tag /\ pub[c].tag \in accepted[c]
    /\ (pub[c].pc = "ret" /\ pub[c].res = "err_nack") => pub[c].got = pub[c].tag
    /\ pub[c].pc = "wait"
          => \A i \in 1..Len(confirmCh[c]) : confirmCh[c][i].tag = pub[c].tag

\* ---------------------------------------------------------- worker, store

\* the rows with primary or foreign key id, table by table
rowsOf(id) ==
  [t \in Tables |->
     {r \in db[t] : (IF t = "nfe" THEN r.id ELSE r.nfe_id) = id}]

\* the rows SaveNFeWithRelations is to write for the invoice p read from bytes b
expectedRows(id, p, b) ==
  [t \in Tables |->
     CASE t = "nfe" ->
            {[id |-> id, chave_acesso |-> p.chave, hash_integridade |-> p.hash]}
       [] t = "nfe_xml" -> {[nfe_id |-> id, xml |-> b]}
       [] t = "nfe_item" ->
            {[nfe_id |-> id, n_item |-> p.itens[i]] : i \in DOMAIN p.itens}
       [] t = "nfe_duplicatas" ->
            {[nfe_id |-> id, numero_duplicata |-> p.dups[i]] : i \in DOMAIN p.dups}
       [] OTHER ->
            {[nfe_id |-> id, k |-> i, forma |-> p.pags[i]] : i \in DOMAIN p.pags}]

\* the bytes the files may hold
AllBytes == {FileKinds[k].bytes : k \in DOMAIN FileKinds}

\* C5: a handler invocation returns an error to the consumer exactly when
\* its processing ended with status db_error (the save failed for a reason
\* of the database); for parse errors, duplicates and successes it returns
\* nil.
C5_ErrorIffDbError ==
  \A w \in Workers :
    call[w].pc = "done" =>
      (call[w].ret = "err" <=> call[w].status = "db_error")

C7_AllOrNothing ==
  /\ \A w \in Workers :
       LET c == call[w] IN
         /\ c.saveRes = "ok" =>
              rowsOf(c.nfeID) = expectedRows(c.nfeID, c.parsed, c.b)
         /\ c.saveRes \in {"duplicate", "error"} =>
              /\ tx[w] = NoTx
              /\ c.seqId # 0 => rowsOf(c.seqId) = NoRows
         /\ (c.saveRes = "none" /\ c.seqId # 0) => rowsOf(c.seqId) = NoRows
  /\ \A r \in db["nfe"] :
       \E b \in AllBytes :
         /\ ParseFile(b).hash = r.hash_integridade
         /\ rowsOf(r.id) = expectedRows(r.id, ParseFile(b), b)
  /\ \A t \in Tables \ {"nfe"} :
       \A r \in db[t] : \E n \in db["nfe"] : n.id = r.nfe_id

\* one call failed after it had written its header row while another call
\* has committed
C7_Witness ==
  \E w, v \in Workers :
    /\ call[w].saveRes = "error" /\ call[w].nfeID # 0
    /\ call[v].saveRes = "ok"

\* C8: the save returns the duplicate outcome only from the header insert,
\* and it does so whenever the header insert is executed while a committed
\* row has the same access key or the same integrity hash; in that step the
\* committed rows do not change, the call has written nothing and its
\* transaction is closed.
C8_DuplicateOnUniqueViolation ==
  [][\A w \in Workers :
       LET p == call[w].parsed
           hit == \E r \in db["nfe"] :
                    r.chave_acesso = p.chave \/ r.hash_integridade = p.hash
       IN /\ (call'[w].saveRes = "duplicate" /\ call[w].saveRes # "duplicate") =>
               /\ call[w].pc = "insertNFe"
               /\ hit
               /\ db' = db
               /\ tx[w].rows = NoRows
               /\ tx'[w] = NoTx
          /\ (/\ call[w].pc = "insertNFe"
              /\ call'[w].pc # "insertNFe"
              /\ faults' = faults
              /\ p.emissao # ""
              /\ hit) => call'[w].saveRes = "duplicate"
    ]_vars

\* a save returned duplicate for bytes whose hash is not in the store: the
\* unique violation was on the access key alone
C8_Witness ==
  \E w \in Workers :
    /\ call[w].saveRes = "duplicate"
    /\ \A r \in db["nfe"] : r.hash_integridade # call[w].parsed.hash
    /\ \E r \in db["nfe"] : r.chave_acesso = call[w].parsed.chave

\* the bytes that hold an invoice the store accepts
ValidBytes ==
  {b \in AllBytes :
     LET p == ParseFile(b) IN
       p.ok /\ p.emissao # "" /\ ~ hasRepeat(p.itens) /\ ~ hasRepeat(p.dups)}

\* the .xml files holding one of the bytes of B
filesOf(B) == {f \in Files : ext(f) = ".xml" /\ bytes(f) \in B}

\* the files whose ingestion ended with status s
endedWith(F, s) == {f \in F : outcomes[f] = <<s>>}

\* C9: with a database and a filesystem that do not fail, for valid bytes b
\* held by N files: the store never holds more than one header row with the
\* hash of b and never more successes than rows; once the N ingestions have
\* ended, each ended with success or duplicate; if no file holds the same
\* invoice in other bytes, exactly one header row with the hash of b is
\* committed, with exactly the rows of one save and no row of another
\* save, one ingestion ended with success and N-1 with duplicate.  The same
\* holds per access key over all the files that hold the invoice, whatever
\* their bytes.
C9_Idempotent ==
  \A b \in ValidBytes :
    LET key == ParseFile(b).chave
        same == {c \in ValidBytes : ParseFile(c).chave = key}
        F == filesOf({b})
        K == filesOf(same)
        rowsB == {r \in db["nfe"] : r.hash_integridade = sha256(b)}
        rowsK == {r \in db["nfe"] : r.chave_acesso = key}
    IN /\ Cardinality(rowsB) <= 1
       /\ Cardinality(rowsK) <= 1
       /\ Cardinality(endedWith(K, "success")) <= Cardinality(rowsK)
       /\ \A t \in Tables \ {"nfe"} :
            \A r \in db[t] : \E n \in db["nfe"] : n.id = r.nfe_id
       /\ (K # {} /\ \A f \in K : outcomes[f] # <<>>) =>
            /\ Cardinality(rowsK) = 1
            /\ Cardinality(endedWith(K, "success")) = 1
            /\ Cardinality(endedWith(K, "duplicate")) = Cardinality(K) - 1
            /\ \A r \in rowsK : \E c \in same :
                 rowsOf(r.id) = expectedRows(r.id, ParseFile(c), c)
            /\ (F = K /\ F # {}) =>
                 /\ Cardinality(rowsB) = 1
                 /\ Cardinality(endedWith(F, "success")) = 1
                 /\ Cardinality(endedWith(F, "duplicate")) = Cardinality(F) - 1

\* every file holds the same valid bytes, two handlers ran at the same
\* time, one ended with success and the other with duplicate
C9_Witness ==
  /\ \A f \in Files : ext(f) = ".xml" /\ bytes(f) = "a1"
  /\ \E w, v \in Workers :
       /\ call[w].status = "success"
       /\ call[v].status = "duplicate"
  /\ Cardinality({r \in db["nfe"] : r.hash_integridade = sha256("a1")}) = 1

\* C10: for every file in processed/ exactly one committed header row has
\* the hash of the file's bytes, and the raw-XML row and the child rows of
\* that header are committed.
C10_ProcessedHasRow ==
  \A e \in fs :
    e.d = "processed" =>
      /\ Cardinality({r \in db["nfe"] :
                        r.hash_integridade = sha256(e.b)}) = 1
      /\ \A r \in db["nfe"] :
           r.hash_integridade = sha256(e.b) =>
             rowsOf(r.id) = expectedRows(r.id, ParseFile(e.b), e.b)

\* C11: for every file in failed/ no committed header row has the hash of
\* the file's bytes.
C11_FailedHasNoRow ==
  \A e \in fs :
    e.d = "failed" =>
      ~ \E r \in db["nfe"] : r.hash_integridade = sha256(e.b)

\* ------------------------------------------------------- worker, archives

\* the directories a handled file ends in
Terminal == {"processed", "failed", "ignored"}

\* C13: when a handler invocation has finished for a job whose file
\* existed (an .xml file, an archive, an unreadable or empty archive), the
\* source file of the job is in exactly one terminal directory and at least
\* one metric has been observed in the invocation, for an .xml file with the
\* status the invocation ended with.
C13_OutcomeObservable ==
  \A w \in Workers :
    LET c == call[w] IN
      (c.pc = "done" /\ c.f # 0) =>
        /\ Cardinality({e \in fs : e.id = <<c.f, 0>> /\ e.d \in Terminal}) = 1
        /\ c.obs # <<>>
        /\ c.xml => c.obs[Len(c.obs)].status = c.status

\* the dropped files that are archives
isArchive(f) == ToLower(ext(f)) = ".zip"

publishedOf(id) == {i \in DOMAIN published : published[i].id = id}

\* the kind the specification gives to a job: the extension, lowercased,
\* without the dot
kindOfExt(e) ==
  CASE e \in {".xml", ".XML"} -> "xml"
    [] e \in {".zip", ".ZIP"} -> "zip"
    [] OTHER -> "none"

\* the basename contains zone.identifier in some letter case
zoneName(n) == n.stem \in {"f.xml:Zone", "ZONE.IDENTIFIER"}

\* neither .xml nor .zip in any letter case, and no zone.identifier
otherName(n) == kindOfExt(n.ext) = "none" /\ ~ zoneName(n)

\* C14: with the queue backend, every job the watcher publishes is for a file
\* that was renamed into processing/ under its basename before, carries that
\* basename and the lowercased extension without the dot as its kind, and is
\* the only job for that file; once the file is promoted its job has been
\* published; a failed rename publishes nothing.
C14_RenameThenOneJob ==
  /\ \A i \in DOMAIN published :
       /\ \E e \in fs : /\ e.id = published[i].id
                        /\ e.d = "processing"
                        /\ e.n = published[i].job.n
       /\ published[i].job.kind = kindOfExt(published[i].job.n.ext)
       /\ publishedOf(published[i].id) = {i}
  /\ \A j \in jobs : \E i \in DOMAIN published : published[i].job = j
  /\ wt.pc = "publish" =>
       /\ publishedOf(wt.id) = {}
       /\ \E e \in fs : e.id = wt.id /\ e.d = "processing" /\ e.n = wt.n
  /\ (mode = "queue" /\ wt.did = "promoted") =>
       Cardinality(publishedOf(wt.id)) = 1
  /\ wt.did = "renameErr" =>
       \A i \in DOMAIN published : published[i].job.n # wt.n

C14_Witness ==
  /\ wt.did = "promoted"
  /\ wt.n.ext = ".ZIP"
  /\ \E i \in publishedOf(wt.id) :
       published[i].ok /\ published[i].job.kind = "zip"
  /\ publishedJob(wt.n) \in jobs

\* C15: a file whose publish failed is in processing/, not back in
\* incoming/, and the watcher has published at most once for it.
C15_FailedPublishKeepsFile ==
  \A i \in DOMAIN published :
    ~ published[i].ok =>
      /\ \E e \in fs : e.id = published[i].id /\ e.d = "processing"
      /\ \A e \in fs : e.id = published[i].id => e.d # "incoming"
      /\ Cardinality(publishedOf(published[i].id)) = 1

C15_Witness ==
  /\ wt.pc = "idle"
  /\ events = {}
  /\ \E i \in DOMAIN published :
       /\ ~ published[i].ok
       /\ published[i].job \notin jobs
       /\ \E e \in fs : e.id = published[i].id /\ e.d = "processing"

\* C16: handleIncomingFile promotes an .xml or .zip file exactly when two
\* consecutive samples, of at most stableAttempts, gave the same positive
\* size; when a sample finds the file missing or the samples are used up,
\* the file is in no other directory than incoming/ and has no job.
C16_StableIffEqualPositivePair ==
  /\ wt.pc = "stable" => ~ wt.pair /\ wt.i < stableAttempts
  /\ (wt.pc \in {"toProcessing", "publish"} \/ wt.did = "promoted") =>
       /\ wt.pair
       /\ wt.cur = wt.last /\ wt.cur > 0
       /\ wt.i + 1 <= stableAttempts
  /\ wt.did = "unstable" =>
       /\ ~ wt.pair
       /\ wt.cur = NoFile \/ wt.i + 1 = stableAttempts
       /\ \A e \in fs : e.n = wt.n => e.d = "incoming"
       /\ \A i \in DOMAIN published : published[i].job.n # wt.n
       /\ \A j \in jobs : j.n # wt.n

C16_Witness ==
  /\ wt.did = "unstable"
  /\ wt.cur > 0
  /\ wt.i + 1 = stableAttempts
  /\ at("incoming", wt.n) # {}

\* C17: a file that is neither .xml nor .zip nor a zone.identifier file is
\* never sampled and never promoted: it goes from incoming/ to ignored/,
\* no job is published for it and the store stays as it is; nothing else
\* reaches ignored/.
C17_OtherExtensionIgnored ==
  /\ \A e \in fs : e.d = "ignored" => otherName(e.n)
  /\ \A e \in fs : otherName(e.n) => e.d \in {"incoming", "ignored"}
  /\ (wt.pc # "idle" /\ otherName(wt.n)) =>
       /\ wt.pc \in {"toIgnored", "done"}
       /\ wt.did \in {"none", "ignored", "renameErr"}
       /\ wt.i = 0 /\ wt.cur = NoFile
  /\ (wt.pc = "toIgnored" \/ wt.did = "ignored") => otherName(wt.n)
  /\ \A i \in DOMAIN published : ~ otherName(published[i].job.n)
  /\ \A j \in jobs : ~ otherName(j.n)
  /\ db = <<>>

C17_Witness ==
  /\ wt.did = "ignored"
  /\ \E e \in fs : e.id = wt.id /\ e.d = "ignored" /\ e.n.ext = ".txt"
  /\ published = <<>>
  /\ proc = <<>>

FiveDirs == {"incoming", "processing", "processed", "failed", "ignored"}

C19_UnprocessableAckedAndDropped ==
  /\ (cur # NoMsg /\ cur.why # "ok") =>
       /\ fs = cur.fs0
       /\ db = cur.db0
       /\ \A w \in Workers : /\ call[w].pc \in {"idle", "done"}
                             /\ call[w].obs = <<>>
                             /\ tx[w] = NoTx
  /\ \A i \in DOMAIN results :
       results[i].why # "ok" =>
         /\ results[i].kind = "ack"
         /\ ~ results[i].herr
         /\ results[i].repub = NoMsg
  /\ Len(mainQ) + Len(msgs) + (IF cur = NoMsg THEN 0 ELSE 1) + Len(results)
       = MaxJobs + Cardinality({i \in DOMAIN results : results[i].repub # NoMsg})
  /\ Len(dlq) = Cardinality({i \in DOMAIN results : results[i].kind = "nack"})

C19_Witness ==
  /\ Len(results) = MaxJobs
  /\ results[1].why = "ok"
  /\ results[2].why = "missing"
  /\ results[2].body = results[1].body
  /\ \E e \in fs : e.d = "processed" /\ e.n = results[2].body.job.n

\* ------------------------------------------------------------- archives
\* the entries of an archive that are .xml files, in any letter case
xmlEntries(b) ==
  {i \in DOMAIN zipEntries(b) : zipEntries(b)[i].n.ext \in {".xml", ".XML"}}

\* the directory of an outcome
dirOfStatus(st) ==
  CASE st = "success" -> "processed"
    [] st = "duplicate" -> "ignored"
    [] st \in {"parse_error", "db_error"} -> "failed"
    [] OTHER -> "none"

\* C21: when processZIP has returned after an archive of which at least one
\* invoice was stored and none failed, the archive is in processed/.
C21_ZipMovedToProcessed ==
  \A w \in Workers :
    LET c == call[w] IN
      (c.pc = "done" /\ c.zi > 0 /\ c.successCount >= 1 /\ c.failCount = 0) =>
        at("processed", c.zn) # {}

C25_FailedRepublishStillAcked ==
  [][ (/\ cpc = "republish"
       /\ pub["worker"].pc = "ret"
       /\ pub["worker"].res # "nil"
       /\ cpc' # "republish")
      => /\ settled'.kind = "ack"
         /\ settled'.body = cur.body
         /\ settled'.hdr = cur.hdr
         /\ cur' = NoMsg
         /\ cpc' = "select"
         /\ mainQ' = mainQ
         /\ msgs' = msgs
         /\ dlq' = dlq
    ]_vars

\* a job failed once, its republication failed, its delivery was acked:
\* the job is in no queue and the loop goes on
C25_Witness ==
  /\ settled.kind = "ack"
  /\ settled.herr
  /\ settled.body \in Jobs
  /\ results[settled.body] = <<"err">>
  /\ ~ inFlight(settled.body)
  /\ ~ inSeq(dlq, settled.body)
  /\ cpc = "select"

\* C26: once the consumer's ctx is cancelled, the ConsumeJobs loop takes no
\* further delivery from its channel to the handler.
C26_NoHandoffAfterCancel ==
  [][ ctxDone => ~ (cpc = "select" /\ cpc' = "handler") ]_vars

\* handler invocations of the consumer that have not returned
handlersInFlight == IF cpc \in {"handler", "republish"} THEN 1 ELSE 0

\* C27: handlers run concurrently up to prefetch: never more than prefetch
\* are in flight, and a delivery that waits in the consumer's channel while
\* one handler runs gets a second handler running at the same time.
C27_ConcurrentHandlers ==
  /\ [](handlersInFlight <= prefetch)
  /\ ((prefetch > 1 /\ cpc = "handler" /\ Len(msgs) > 0 /\ ~ ctxDone)
        ~> (handlersInFlight >= 2 \/ ctxDone))


\* the entries of the directories in ds
entriesIn(files, ds) == {e \in files : e.d \in ds}

\* C28: directory ownership: a step of the watcher puts no entry into
\* processed/, failed/ or ignored/, and a step of anybody else (a worker,
\* whoever drops files) puts no entry into processing/.
C28_DirectoryOwnership ==
  [][ /\ (wt' # wt =>
            entriesIn(fs', Terminal) \subseteq entriesIn(fs, Terminal))
      /\ (wt' = wt =>
            entriesIn(fs', {"processing"}) \subseteq entriesIn(fs, {"processing"}))
    ]_vars

\* C29: an invoice without issue date (bytes "noemi": non-zero model, dhEmi
\* and dEmi both empty) is rejected by the parser: no worker is ever past the
\* parse step with it (SaveNFeWithRelations is not entered) and the only
\* status its processXML call ends with is parse_error.
C29_NoIssueDateIsParseError ==
  /\ \A w \in Workers :
       call[w].b = "noemi" =>
         /\ call[w].pc \in {"move", "ret", "done"}
         /\ call[w].status \in {"none", "parse_error"}
         /\ call[w].saveRes = "none"
  /\ \A f \in DOMAIN outcomes :
       (f \in DOMAIN fkind /\ FileKinds[fkind[f]].bytes = "noemi") =>
         \A i \in DOMAIN outcomes[f] : outcomes[f][i] = "parse_error"

\* C30: the retry counter read from the headers of the delivery in hand is
\* the number the x-retries header carries, whatever its numeric type; it is
\* 0 only for a missing header (or a header that carries 0), so a delivery
\* whose header is at or above maxRetries is never republished.
C30_RetriesReadFromAnyNumeric ==
  cpc \in {"handler", "republish"} =>
    /\ cur.hdr.t \in NumericTypes => extractRetries(cur.hdr) = cur.hdr.v
    /\ extractRetries(cur.hdr) = 0 => (cur.hdr.t = "missing" \/ cur.hdr.v = 0)
    /\ cpc = "republish" => cur.hdr.v < maxRetries

C32_ExitCodes ==
  \A d \in Daemons :
    /\ proc[d].why = "cancel" => proc[d].exit = 0
    /\ proc[d].why \in InitSteps[d] \cup {"broker", "run"} => proc[d].exit # 0
    /\ (proc[d].backend = "rabbitmq" /\ ~ proc[d].brokerUp) =>
         /\ proc[d].pc # "run"
         /\ proc[d].pc = "exited" => proc[d].exit # 0

\* C33: every successful parse carries an access key of exactly 44 decimal
\* digits.
C33_AccessKey44Digits ==
  \A w \in Workers :
    (call[w].pc = "done" /\ call[w].parsed.ok) =>
       /\ Len(call[w].parsed.chave) = KeyLen
       /\ onlyDigits(call[w].parsed.chave) = call[w].parsed.chave

\* C34: in queue mode every .xml file that was found stable and promoted to
\* processing/ is eventually at rest in a terminal directory and stays
\* there, also when the watcher's publish failed.
C34_PromotedXmlComesToRest ==
  \A f \in Files :
    (/\ mode = "queue"
     /\ \E e \in fs : /\ e.id = <<f, 0>>
                      /\ e.d = "processing"
                      /\ ToLower(e.n.ext) = ".xml")
    ~> [](\E e \in fs : e.id = <<f, 0>> /\ e.d \in Terminal)

\* C35: no job is lost on the retry path: a job whose last handler call
\* returned an error and whose delivery is settled is in the main queue (or
\* on its way to it, or delivered again) or in the dead-letter queue.
C35_NoJobLostOnRetry ==
  \A j \in Jobs :
    (/\ results[j] # <<>>
     /\ results[j][Len(results[j])] = "err"
     /\ cur.body # j)
    => (inFlight(j) \/ inSeq(dlq, j))

\* C36: no move destroys another file: a file that is in processed/,
\* failed/ or ignored/ is still in some directory after every step, and a
\* file of processing/ is never replaced by another file of the same name.
C36_NoMoveDestroysAFile ==
  [][ \A e \in fs :
        /\ e.d \in Terminal => \E x \in fs' : x.id = e.id
        /\ e.d = "processing" =>
             \A x \in fs' : (x.d = "processing" /\ x.n = e.n) => x.id = e.id
    ]_vars

\* C37: no arrival is missed: every file that is in incoming/, whenever it
\* was created, is eventually passed to handleIncomingFile.
C37_NoArrivalMissed ==
  \A f \in Files :
    (\E e \in fs : e.d = "incoming" /\ e.id = <<f, 0>>)
    ~> (wt.pc # "idle" /\ \E k \in DOMAIN DropKinds : wt.n = dropName(f, k))

\* C38: an invoice with two items of one item number (bytes "rep") or two
\* receivables of one number (bytes "repdup") never gets the duplicate outcome: its save returns an error that is no
\* duplicate, none of its rows is committed, its status is db_error and the
\* file goes to failed/, never to ignored/ or processed/.
C38_ChildViolationIsDbError ==
  /\ \A w \in Workers :
       call[w].b \in {"rep", "repdup"} =>
         /\ call[w].saveRes \in {"none", "error"}
         /\ call[w].status \in {"none", "db_error"}
         /\ call[w].moveTo \in {"none", "failed"}
  /\ \A r \in db["nfe"] :
       r.hash_integridade \notin {<<"sha256", "rep">>, <<"sha256", "repdup">>}
  /\ \A r \in db["nfe_xml"] : r.xml \notin {"rep", "repdup"}
  /\ \A e \in fs : e.b \in {"rep", "repdup"} => e.d \in {"processing", "failed"}
  /\ \A f \in Files :
       FileKinds[fkind[f]].bytes \in {"rep", "repdup"} =>
         \A i \in DOMAIN outcomes[f] : outcomes[f][i] = "db_error"

\* an invoice with a repeated item number was saved with an error after its
\* header row was written, and is in failed/
C38_Witness ==
  \E f \in Files :
    /\ FileKinds[fkind[f]].bytes = "rep"
    /\ outcomes[f] = <<"db_error">>
    /\ \E e \in fs : e.id = <<f, 0>> /\ e.d = "failed"
    /\ faults = MaxFaults

\* the jobs in the order in which PublishJob was called for them
publishOrder ==
  [i \in 1..Len(published) |-> published[i].job]
    \o (IF wt.pc = "publishing" THEN <<pub["watcher"].body>> ELSE <<>>)

\* where a job stands in that order (0: PublishJob was never called for it)
publishPos(b) ==
  IF \E i \in DOMAIN publishOrder : publishOrder[i] = b
  THEN CHOOSE i \in DOMAIN publishOrder : publishOrder[i] = b
  ELSE 0

\* C39: the watcher handles arrivals strictly one at a time: an invocation
\* of handleIncomingFile (stability check, rename, publish) that is in
\* progress is never displaced by another, it ends by returning to the event
\* loop; a stability check completes only when no publish call is open and
\* the file has no job yet; and after every step the jobs stand in the main
\* queue in the order in which their files' stability checks completed, which
\* is the order of the PublishJob calls.
C39_OneArrivalAtATime ==
  /\ [][ /\ (wt.pc # "idle" /\ wt' # wt) =>
              \/ wt'.n = wt.n /\ wt'.pc # "idle" /\ wt.pc # "done"
              \/ wt.pc = "done" /\ wt' = NoWt
         /\ (wt.pc = "stable" /\ wt'.pc = "toProcessing") =>
              /\ pub["watcher"].pc = "idle"
              /\ sent["watcher"] = <<>> \/ faults < MaxFaults
              /\ \A i \in DOMAIN published : published[i].job.n # wt.n
              /\ \A i \in DOMAIN mainQ : mainQ[i].body.n # wt.n
         /\ (wt.pc = "publish" /\ wt'.pc = "publishing") =>
              /\ wt'.n = wt.n
              /\ pub'["watcher"].body.n = wt.n
              /\ \A i \in DOMAIN published : published[i].job.n # wt.n
         /\ \A i, j \in DOMAIN mainQ' :
              /\ publishPos(mainQ[i].body)' > 0
              /\ i < j => publishPos(mainQ[i].body)' < publishPos(mainQ[j].body)'
       ]_vars

\* both files were promoted and published, the second file first: its job
\* stands first in the main queue
C39_Witness ==
  /\ wt = NoWt
  /\ Len(published) = 2
  /\ published[1].id = <<2, 0>>
  /\ published[2].id = <<1, 0>>
  /\ Len(mainQ) = 2
  /\ mainQ[1].body = published[1].job
  /\ mainQ[2].body = published[2].job

============================================================================
